---- MODULE Spec2Model ----
(***************************************************************************)
(* Timeline Builder: the persisted record store (TimelineStore), the       *)
(* viewer's per-render view derivation (TimelineViewer._prepareContext,    *)
(* #applyFilters) and the display resolver (resolveEntryDisplayProps).     *)
(*                                                                         *)
(* Strings whose contents matter (period, text filter, colour values,      *)
(* labels) are sequences of one-character strings; strings that are only   *)
(* compared for equality (ids, names, descriptions, image paths) are TLA+  *)
(* strings.  Generated ids (foundry.utils.randomID) are the decimal        *)
(* strings of a counter; "ghost" is an id that is never generated.  The    *)
(* style strings getGlassStyle computes for display are left out.          *)
(***************************************************************************)
EXTENDS Integers, Sequences, FiniteSets, TLC

\* ---------------------------------------------------------------- bounds
MaxIds == 4
MaxOrderLen == 2
MaxTimelines == 1

VARIABLES
  timelines,   \* setting "data": the Timelines collection
  tags,        \* setting "tags"
  colors,      \* setting "colors"
  nextId,      \* next id foundry.utils.randomID() hands out
  lastOp,      \* the last TimelineStore call: its name, result, settings written
  roundTrip,   \* progress of createTimeline, addEntry, insertEntry, deleteEntry
  user,                \* game.user of this client
  selectedTimelineId,  \* TimelineViewer.#selectedTimelineId
  activeFilters,       \* TimelineViewer.#activeFilters
  textFilter,          \* TimelineViewer.#textFilter
  context,             \* what the last _prepareContext returned
  dom,                 \* the .h-entry nodes of the rendered viewer
  held,                \* the value of setting "data" this client holds
  shared,              \* game.settings.get hands out held itself, not a copy
  calls,               \* the game.settings.set calls of this client not yet settled
  api,                 \* the entry point's module state: its singletons, hooks, last result
  pending              \* the manager handlers suspended at an await

storeVars == <<timelines, tags, colors, nextId, lastOp, roundTrip>>
viewVars == <<user, selectedTimelineId, activeFilters, textFilter, context, dom>>
clientVars == <<held, shared, calls>>
appVars == <<api, pending>>
vars == <<storeVars, viewVars, clientVars, appVars>>

\* ------------------------------------------------------- JavaScript helpers
\* String.prototype.toLowerCase, one character at a time.
LowerChar(c) ==
  CASE c = "A" -> "a" [] c = "B" -> "b" [] c = "C" -> "c" [] c = "D" -> "d"
    [] c = "E" -> "e" [] c = "F" -> "f" [] c = "G" -> "g" [] c = "H" -> "h"
    [] c = "I" -> "i" [] c = "J" -> "j" [] c = "K" -> "k" [] c = "L" -> "l"
    [] c = "M" -> "m" [] c = "N" -> "n" [] c = "O" -> "o" [] c = "P" -> "p"
    [] c = "Q" -> "q" [] c = "R" -> "r" [] c = "S" -> "s" [] c = "T" -> "t"
    [] c = "U" -> "u" [] c = "V" -> "v" [] c = "W" -> "w" [] c = "X" -> "x"
    [] c = "Y" -> "y" [] c = "Z" -> "z" [] OTHER -> c

toLowerCase(s) == [i \in 1..Len(s) |-> LowerChar(s[i])]

\* String.prototype.includes
includes(s, sub) ==
  \E k \in 0..(Len(s) - Len(sub)) : SubSeq(s, k + 1, k + Len(sub)) = sub

\* An object with no keys ({}), as a map.
EmptyMap == [k \in {} |-> TRUE]

\* Array.prototype.findIndex(x => x.id === id), 1-based; 0 when nothing
\* matches (JS: -1).
FindIndexById(seq, id) ==
  IF \E i \in 1..Len(seq) : seq[i].id = id
  THEN CHOOSE i \in 1..Len(seq) :
         /\ seq[i].id = id
         /\ \A j \in 1..(i - 1) : seq[j].id # id
  ELSE 0

\* Array.prototype.filter(e => e.id !== id)
RECURSIVE FilterOutId(_, _)
FilterOutId(seq, id) ==
  IF seq = <<>> THEN <<>>
  ELSE IF Head(seq).id = id THEN FilterOutId(Tail(seq), id)
       ELSE <<Head(seq)>> \o FilterOutId(Tail(seq), id)

\* Object.assign(target, data) and { ...target, ...data }
ObjectAssign(target, data) ==
  [f \in (DOMAIN target) \cup (DOMAIN data) |->
     IF f \in DOMAIN data THEN data[f] ELSE target[f]]

\* entries.forEach((e, i) => e.sort = i)
Resort(entries) ==
  [i \in 1..Len(entries) |-> [entries[i] EXCEPT !.sort = i - 1]]

\* Array.prototype.splice(index, 0, item) with a 0-based index
SpliceIn(seq, index, item) ==
  SubSeq(seq, 1, index) \o <<item>> \o SubSeq(seq, index + 1, Len(seq))

\* ------------------------------------------------- TimelineStore: timelines
\* The position of the timeline timelines.find(t => t.id === id) returns.
FindTimeline(tls, id) == FindIndexById(tls, id)

\* The object literal createTimeline builds.
NewTimeline(id, name) ==
  [id |-> id,
   name |-> IF name = "" THEN "New Timeline" ELSE name,
   visible |-> FALSE,
   userPermissions |-> EmptyMap,
   entries |-> <<>>]

createTimeline(tls, name, id) ==
  [data |-> Append(tls, NewTimeline(id, name)), ret |-> "object", wrote |-> {"data"}]

\* foundry.utils.mergeObject for the flat patches the manager passes.
mergeObject(original, other) == ObjectAssign(original, other)

updateTimeline(tls, id, data) ==
  LET index == FindTimeline(tls, id) IN
  IF index = 0 THEN [data |-> tls, ret |-> "null", wrote |-> {}]
  ELSE [data |-> [tls EXCEPT ![index] = mergeObject(tls[index], data)],
        ret |-> "object", wrote |-> {"data"}]

updateTimelinePermissions(tls, id, permissions) ==
  LET index == FindTimeline(tls, id) IN
  IF index = 0 THEN [data |-> tls, ret |-> "null", wrote |-> {}]
  ELSE [data |-> [tls EXCEPT ![index].userPermissions = permissions],
        ret |-> "object", wrote |-> {"data"}]

deleteTimeline(tls, id) ==
  LET rest == FilterOutId(tls, id) IN
  IF Len(rest) < Len(tls)
  THEN [data |-> rest, ret |-> "true", wrote |-> {"data"}]
  ELSE [data |-> tls, ret |-> "false", wrote |-> {}]

\* --------------------------------------------------- TimelineStore: entries
\* The object literal addEntry and insertEntry build from entryData.
NewEntry(id, entryData, sort) ==
  [id |-> id,
   name |-> IF "name" \in DOMAIN entryData /\ entryData.name # ""
            THEN entryData.name ELSE "New Entry",
   period |-> IF "period" \in DOMAIN entryData THEN entryData.period ELSE <<>>,
   description |-> IF "description" \in DOMAIN entryData
                   THEN entryData.description ELSE "",
   hidden |-> IF "hidden" \in DOMAIN entryData THEN entryData.hidden ELSE FALSE,
   color |-> IF "color" \in DOMAIN entryData THEN entryData.color ELSE <<>>,
   img |-> IF "img" \in DOMAIN entryData THEN entryData.img ELSE "",
   tagIds |-> IF "tagIds" \in DOMAIN entryData THEN entryData.tagIds ELSE <<>>,
   sort |-> sort]

addEntry(tls, timelineId, entryData, id) ==
  LET index == FindTimeline(tls, timelineId) IN
  IF index = 0 THEN [data |-> tls, ret |-> "null", wrote |-> {}]
  ELSE LET newEntry == NewEntry(id, entryData, Len(tls[index].entries)) IN
       [data |-> [tls EXCEPT ![index].entries = Append(@, newEntry)],
        ret |-> "object", wrote |-> {"data"}]

\* Mutant: the splice index is targetIndex instead of targetIndex + 1.
InsertAfter_before(entries, targetEntryId, newEntry) ==
  LET targetIndex == FindIndexById(entries, targetEntryId) IN
  Resort(IF targetIndex # 0
         THEN SpliceIn(entries, targetIndex - 1, newEntry)
         ELSE Append(entries, newEntry))

\* insertEntry's splice-or-push followed by the forEach that renumbers sort.
InsertAfter(entries, targetEntryId, newEntry) ==
  LET targetIndex == FindIndexById(entries, targetEntryId) IN
  Resort(IF targetIndex # 0
         THEN SpliceIn(entries, targetIndex, newEntry)
         ELSE Append(entries, newEntry))

insertEntry(tls, timelineId, targetEntryId, entryData, id) ==
  LET index == FindTimeline(tls, timelineId) IN
  IF index = 0 THEN [data |-> tls, ret |-> "null", wrote |-> {}]
  ELSE LET newEntry == NewEntry(id, entryData, 0) IN
       [data |-> [tls EXCEPT ![index].entries =
                                InsertAfter(@, targetEntryId, newEntry)],
        ret |-> "object", wrote |-> {"data"}]

\* Mutant: the patch is merged into every entry of the timeline.
updateEntry_everyEntry(tls, timelineId, entryId, data) ==
  LET index == FindTimeline(tls, timelineId) IN
  IF index = 0 THEN [data |-> tls, ret |-> "null", wrote |-> {}]
  ELSE LET e == FindIndexById(tls[index].entries, entryId) IN
       IF e = 0 THEN [data |-> tls, ret |-> "null", wrote |-> {}]
       ELSE [data |-> [tls EXCEPT ![index].entries =
                         [j \in 1..Len(@) |-> ObjectAssign(@[j], data)]],
             ret |-> "object", wrote |-> {"data"}]

\* Mutant: the patch is not assigned to the entry.
updateEntry_noAssign(tls, timelineId, entryId, data) ==
  LET index == FindTimeline(tls, timelineId) IN
  IF index = 0 THEN [data |-> tls, ret |-> "null", wrote |-> {}]
  ELSE LET e == FindIndexById(tls[index].entries, entryId) IN
       IF e = 0 THEN [data |-> tls, ret |-> "null", wrote |-> {}]
       ELSE [data |-> tls, ret |-> "object", wrote |-> {"data"}]

updateEntry(tls, timelineId, entryId, data) ==
  LET index == FindTimeline(tls, timelineId) IN
  IF index = 0 THEN [data |-> tls, ret |-> "null", wrote |-> {}]
  ELSE LET e == FindIndexById(tls[index].entries, entryId) IN
       IF e = 0 THEN [data |-> tls, ret |-> "null", wrote |-> {}]
       ELSE [data |-> [tls EXCEPT ![index].entries[e] = ObjectAssign(@, data)],
             ret |-> "object", wrote |-> {"data"}]

\* Mutant: the filter without the renumbering.
RemoveEntry_noResort(entries, entryId) == FilterOutId(entries, entryId)

\* deleteEntry's filter, and the renumbering it does when something went.
RemoveEntry(entries, entryId) ==
  LET rest == FilterOutId(entries, entryId) IN
  IF Len(rest) < Len(entries) THEN Resort(rest) ELSE rest

deleteEntry(tls, timelineId, entryId) ==
  LET index == FindTimeline(tls, timelineId) IN
  IF index = 0 THEN [data |-> tls, ret |-> "false", wrote |-> {}]
  ELSE LET rest == RemoveEntry(tls[index].entries, entryId) IN
       IF Len(rest) < Len(tls[index].entries)
       THEN [data |-> [tls EXCEPT ![index].entries = rest],
             ret |-> "true", wrote |-> {"data"}]
       ELSE [data |-> tls, ret |-> "false", wrote |-> {}]

\* new Map(entries.map(e => [e.id, e])).get(id): the last entry with that id,
\* as a position; 0 when the map has no such key.
EntryMapGet(entries, id) ==
  IF \E i \in 1..Len(entries) : entries[i].id = id
  THEN CHOOSE i \in 1..Len(entries) :
         /\ entries[i].id = id
         /\ \A j \in (i + 1)..Len(entries) : entries[j].id # id
  ELSE 0

\* The value `entry.sort = i` leaves in the object pushed at step k of the
\* loop: the object is shared by every step that names the same id, so it
\* holds the index of the last such step.
SortAssigned(orderedIds, k) ==
  (CHOOSE i \in 1..Len(orderedIds) :
     /\ orderedIds[i] = orderedIds[k]
     /\ \A j \in (i + 1)..Len(orderedIds) : orderedIds[j] # orderedIds[k]) - 1

\* updateEntryOrder's loop over orderedIds, from step k on.
RECURSIVE RebuildFrom(_, _, _)
RebuildFrom(entries, orderedIds, k) ==
  IF k > Len(orderedIds) THEN <<>>
  ELSE LET e == EntryMapGet(entries, orderedIds[k]) IN
       IF e # 0
       THEN <<[entries[e] EXCEPT !.sort = SortAssigned(orderedIds, k)]>>
            \o RebuildFrom(entries, orderedIds, k + 1)
       ELSE RebuildFrom(entries, orderedIds, k + 1)

ReorderEntries(entries, orderedIds) == RebuildFrom(entries, orderedIds, 1)

updateEntryOrder(tls, timelineId, orderedIds) ==
  LET index == FindTimeline(tls, timelineId) IN
  IF index = 0 THEN [data |-> tls, ret |-> "false", wrote |-> {}]
  ELSE [data |-> [tls EXCEPT ![index].entries = ReorderEntries(@, orderedIds)],
        ret |-> "true", wrote |-> {"data"}]

\* ------------------------------------------- TimelineStore: tags and colors
\* config.js DEFAULT_COLORS, the value of setting "colors" before any write.
DEFAULT_COLORS ==
  << [id |-> "red",        label |-> <<"R","e","d">>,
      value |-> <<"#","F","F","0","0","0","0">>],
     [id |-> "orange",     label |-> <<"O","r","a","n","g","e">>,
      value |-> <<"#","F","F","8","0","0","0">>],
     [id |-> "yellow",     label |-> <<"Y","e","l","l","o","w">>,
      value |-> <<"#","F","F","F","F","0","0">>],
     [id |-> "chartreuse", label |-> <<"C","h","a","r","t","r","e","u","s","e">>,
      value |-> <<"#","8","0","F","F","0","0">>],
     [id |-> "green",      label |-> <<"G","r","e","e","n">>,
      value |-> <<"#","0","0","F","F","0","0">>],
     [id |-> "cyan",       label |-> <<"C","y","a","n">>,
      value |-> <<"#","0","0","F","F","F","F">>],
     [id |-> "azure",      label |-> <<"A","z","u","r","e">>,
      value |-> <<"#","0","0","8","0","F","F">>],
     [id |-> "blue",       label |-> <<"B","l","u","e">>,
      value |-> <<"#","0","0","0","0","F","F">>],
     [id |-> "violet",     label |-> <<"V","i","o","l","e","t">>,
      value |-> <<"#","8","0","0","0","F","F">>],
     [id |-> "magenta",    label |-> <<"M","a","g","e","n","t","a">>,
      value |-> <<"#","F","F","0","0","F","F">>] >>

\* The colours the dialogs offer: values of the palette.
RED == DEFAULT_COLORS[1].value
GREEN == DEFAULT_COLORS[5].value

createTag(tgs, label, color, id) ==
  [tags |-> Append(tgs, [id |-> id, label |-> label, color |-> color]),
   ret |-> "object", wrote |-> {"tags"}]

updateTag(tgs, id, data) ==
  LET index == FindIndexById(tgs, id) IN
  IF index = 0 THEN [tags |-> tgs, ret |-> "null", wrote |-> {}]
  ELSE [tags |-> [tgs EXCEPT ![index] = ObjectAssign(@, data)],
        ret |-> "object", wrote |-> {"tags"}]

deleteTag(tgs, id) ==
  [tags |-> FilterOutId(tgs, id), ret |-> "undefined", wrote |-> {"tags"}]

createColor(cls, label, value, id) ==
  [colors |-> Append(cls, [id |-> id, label |-> label, value |-> value]),
   ret |-> "object", wrote |-> {"colors"}]

deleteColor(cls, id) ==
  [colors |-> FilterOutId(cls, id), ret |-> "undefined", wrote |-> {"colors"}]

\* `x && x.toLowerCase() === lowerOldValue` on an optional string field.
RefersTo(obj, field, lowerOldValue) ==
  /\ field \in DOMAIN obj
  /\ obj[field] # <<>>
  /\ toLowerCase(obj[field]) = lowerOldValue

\* One field of the cascade: rewritten when it refers to the old value.
Recolor(obj, field, lowerOldValue, newValue) ==
  IF RefersTo(obj, field, lowerOldValue)
  THEN [obj EXCEPT ![field] = newValue] ELSE obj

\* The tags.forEach of updateColor.
CascadeTags(tgs, lowerOldValue, newValue) ==
  [i \in 1..Len(tgs) |-> Recolor(tgs[i], "color", lowerOldValue, newValue)]

\* The timelines.forEach of updateColor, entries included.
CascadeTimelines(tls, lowerOldValue, newValue) ==
  [i \in 1..Len(tls) |->
     LET t == Recolor(tls[i], "defaultColor", lowerOldValue, newValue) IN
     [t EXCEPT !.entries =
        [j \in 1..Len(t.entries) |->
           Recolor(Recolor(t.entries[j], "color", lowerOldValue, newValue),
                   "effectColor", lowerOldValue, newValue)]]]

\* tagsChanged / timelinesChanged: whether some field matched the old value.
tagsChanged(tgs, lowerOldValue) ==
  \E i \in 1..Len(tgs) : RefersTo(tgs[i], "color", lowerOldValue)

timelinesChanged(tls, lowerOldValue) ==
  \E i \in 1..Len(tls) :
    \/ RefersTo(tls[i], "defaultColor", lowerOldValue)
    \/ \E j \in 1..Len(tls[i].entries) :
         \/ RefersTo(tls[i].entries[j], "color", lowerOldValue)
         \/ RefersTo(tls[i].entries[j], "effectColor", lowerOldValue)

updateColor(cls, tgs, tls, id, data) ==
  LET index == FindIndexById(cls, id) IN
  IF index = 0
  THEN [colors |-> cls, tags |-> tgs, data |-> tls, ret |-> "null", wrote |-> {}]
  ELSE LET oldValue == cls[index].value
           newColors == [cls EXCEPT ![index] = ObjectAssign(@, data)]
       IN
       IF "value" \in DOMAIN data /\ data.value # <<>> /\ data.value # oldValue
       THEN LET lowerOldValue == toLowerCase(oldValue)
                newTags == CascadeTags(tgs, lowerOldValue, data.value)
                newData == CascadeTimelines(tls, lowerOldValue, data.value)
            IN [colors |-> newColors, tags |-> newTags, data |-> newData,
                ret |-> "object",
                wrote |-> {"colors"}
                          \cup (IF tagsChanged(tgs, lowerOldValue) THEN {"tags"} ELSE {})
                          \cup (IF timelinesChanged(tls, lowerOldValue)
                                THEN {"data"} ELSE {})]
       ELSE [colors |-> newColors, tags |-> tgs, data |-> tls,
             ret |-> "object", wrote |-> {"colors"}]

\* ------------------------------------------------------------ the store
\* foundry.utils.randomID(): the counter's value as a string.
randomID(n) == ToString(n)

\* What #onAddEntry / #onInsertEntry pass.
EntryDatas == {[name |-> "New Entry", period |-> <<>>, description |-> ""]}
\* What #onToggleEntryVisibility passes to updateEntry for a shown entry.
EntryPatches == {[hidden |-> TRUE]}
TimelineNames == {""}

\* Ids a caller may pass for a timeline: those of the stored timelines, and
\* "ghost", an id that names nothing (as does any id not in the collection).
TimelineArgs == {timelines[i].id : i \in 1..Len(timelines)} \cup {"ghost"}

\* Ids a caller may pass for an entry of timeline t.
EntryArgs(t) ==
  UNION {{timelines[i].entries[j].id : j \in 1..Len(timelines[i].entries)} :
           i \in {k \in 1..Len(timelines) : timelines[k].id = t}}
  \cup {"ghost"}

\* Every list of at most n ids out of S.
RECURSIVE IdLists(_, _)
IdLists(S, n) ==
  IF n = 0 THEN {<<>>}
  ELSE IdLists(S, n - 1)
       \cup {Append(l, id) : l \in {m \in IdLists(S, n - 1) : Len(m) = n - 1},
                              id \in S}

OrderArgs(t) == IdLists(EntryArgs(t), MaxOrderLen)

Exists(seq, id) == \E i \in 1..Len(seq) : seq[i].id = id

NoTrip == [stage |-> 0, t |-> "ghost", a |-> "ghost", b |-> "ghost"]

\* No store call made yet.
NoOp == [op |-> "none", ret |-> "undefined", wrote |-> {}]

\* No write of setting "data" is under way; none has overlapped another.
NoCalls == [inflight |-> <<>>, completed |-> {}, overlapped |-> FALSE, count |-> 0]

\* The entry point as the module is loaded: managerInstance and viewerInstance
\* are null, the viewer's hook is not set, setting "broadcast" is {}; ret is
\* what the last call of Manage or Open returned.
NoApi ==
  [managerInstance |-> "null", managerRendered |-> FALSE,
   viewerInstance |-> "null", settingHook |-> FALSE,
   broadcast |-> "null", ret |-> "none"]

\* No handler of the manager is suspended: no sort dialog is open (sort is
\* the timeline the handler read), no broadcast is between its two writes.
NoPending == [sort |-> [id |-> "null", entries |-> <<>>], broadcast |-> "null"]

\* A client on which no viewer has been opened: viewerInstance is null.
GM == [id |-> "gm", isGM |-> TRUE]
NoContext == [rendered |-> FALSE]

ViewerClosed ==
  /\ selectedTimelineId = "null"
  /\ activeFilters = {}
  /\ textFilter = <<>>
  /\ context = NoContext
  /\ dom = <<>>

\* A world in which the module has just been enabled, on the GM's client.
Init ==
  /\ timelines = <<>>
  /\ tags = <<>>
  /\ colors = DEFAULT_COLORS
  /\ nextId = 1
  /\ lastOp = NoOp
  /\ roundTrip = NoTrip
  /\ user = GM
  /\ ViewerClosed
  /\ held = timelines
  /\ shared = FALSE
  /\ calls = NoCalls
  /\ api = NoApi
  /\ pending = NoPending

\* The data collection after a call, and the record of the call.
Done(op, r) ==
  /\ timelines' = r.data
  /\ lastOp' = [op |-> op, ret |-> r.ret, wrote |-> r.wrote]
  /\ held' = r.data
  /\ UNCHANGED <<viewVars, shared, calls, appVars>>

CreateTimeline(name) ==
  /\ Len(timelines) < MaxTimelines
  /\ nextId <= MaxIds
  /\ Done("createTimeline", createTimeline(timelines, name, randomID(nextId)))
  /\ nextId' = nextId + 1
  /\ roundTrip' = [NoTrip EXCEPT !.stage = 1, !.t = randomID(nextId)]
  /\ UNCHANGED <<tags, colors>>

DeleteTimeline(id) ==
  /\ Done("deleteTimeline", deleteTimeline(timelines, id))
  /\ roundTrip' = NoTrip
  /\ UNCHANGED <<tags, colors, nextId>>

AddEntry(timelineId, entryData) ==
  /\ Exists(timelines, timelineId) => nextId <= MaxIds
  /\ Done("addEntry", addEntry(timelines, timelineId, entryData, randomID(nextId)))
  /\ nextId' = IF Exists(timelines, timelineId) THEN nextId + 1 ELSE nextId
  /\ roundTrip' = IF roundTrip.stage = 1 /\ roundTrip.t = timelineId
                  THEN [roundTrip EXCEPT !.stage = 2, !.a = randomID(nextId)]
                  ELSE NoTrip
  /\ UNCHANGED <<tags, colors>>

InsertEntry(timelineId, targetEntryId, entryData) ==
  /\ Exists(timelines, timelineId) => nextId <= MaxIds
  /\ Done("insertEntry",
          insertEntry(timelines, timelineId, targetEntryId, entryData,
                      randomID(nextId)))
  /\ nextId' = IF Exists(timelines, timelineId) THEN nextId + 1 ELSE nextId
  /\ roundTrip' = IF /\ roundTrip.stage = 2
                     /\ roundTrip.t = timelineId
                     /\ roundTrip.a = targetEntryId
                  THEN [roundTrip EXCEPT !.stage = 3, !.b = randomID(nextId)]
                  ELSE NoTrip
  /\ UNCHANGED <<tags, colors>>

UpdateEntry(timelineId, entryId, data) ==
  /\ Done("updateEntry", updateEntry(timelines, timelineId, entryId, data))
  /\ roundTrip' = NoTrip
  /\ UNCHANGED <<tags, colors, nextId>>

DeleteEntry(timelineId, entryId) ==
  /\ Done("deleteEntry", deleteEntry(timelines, timelineId, entryId))
  /\ roundTrip' = IF /\ roundTrip.stage = 3
                     /\ roundTrip.t = timelineId
                     /\ roundTrip.a = entryId
                  THEN [roundTrip EXCEPT !.stage = 4]
                  ELSE NoTrip
  /\ UNCHANGED <<tags, colors, nextId>>

UpdateEntryOrder(timelineId, orderedIds) ==
  /\ Done("updateEntryOrder", updateEntryOrder(timelines, timelineId, orderedIds))
  /\ roundTrip' = NoTrip
  /\ UNCHANGED <<tags, colors, nextId>>

Next ==
  \/ \E name \in TimelineNames : CreateTimeline(name)
  \/ \E id \in TimelineArgs : DeleteTimeline(id)
  \/ \E t \in TimelineArgs, d \in EntryDatas : AddEntry(t, d)
  \/ \E t \in TimelineArgs : \E e \in EntryArgs(t), d \in EntryDatas :
       InsertEntry(t, e, d)
  \/ \E t \in TimelineArgs : \E e \in EntryArgs(t) : DeleteEntry(t, e)
  \/ \E t \in TimelineArgs : \E ids \in OrderArgs(t) : UpdateEntryOrder(t, ids)

Spec == Init /\ [][Next]_vars

\* ------------------------------------------ the store's whole interface
\* What the manager passes: #onToggleVisibility / #onBroadcastTimeline to
\* updateTimeline, PermissionManager to updateTimelinePermissions (a map of
\* user id to boolean, "default" choices left out), TagManager to updateTag,
\* ColorManager to updateColor.
TimelinePatches == {[visible |-> TRUE]}
PermissionMaps == {EmptyMap, [u \in {"u1"} |-> TRUE]}
TagDatas == {[label |-> <<"W","a","r">>, color |-> <<"#","f","f","0","0","0","0">>]}
ColorDatas == {[label |-> <<"R","e","d">>, value |-> <<"#","F","F","0","0","0","1">>]}

TagArgs == {tags[i].id : i \in 1..Len(tags)} \cup {"ghost"}
ColorArgs == {DEFAULT_COLORS[1].id, "ghost"}

\* A world the GM has filled in: one timeline with two entries, one tag.
World ==
  LET a == createTimeline(<<>>, "History", "t1").data
      b == addEntry(a, "t1", [name |-> "Battle", period |-> <<"A","b">>,
                               color |-> <<"#","f","f","0","0","0","0">>,
                               tagIds |-> <<"g1">>], "e1").data
  IN addEntry(b, "t1", [name |-> "Peace"], "e2").data

WorldTags == createTag(<<>>, <<"W","a","r">>, <<"#","F","F","0","0","0","0">>, "g1").tags

InitStore ==
  /\ timelines = World
  /\ tags = WorldTags
  /\ colors = DEFAULT_COLORS
  /\ nextId = 1
  /\ lastOp = NoOp
  /\ roundTrip = NoTrip
  /\ user = GM
  /\ ViewerClosed
  /\ held = timelines
  /\ shared = FALSE
  /\ calls = NoCalls
  /\ api = NoApi
  /\ pending = NoPending

UpdateTimeline(id, data) ==
  /\ Done("updateTimeline", updateTimeline(timelines, id, data))
  /\ roundTrip' = NoTrip
  /\ UNCHANGED <<tags, colors, nextId>>

UpdateTimelinePermissions(id, permissions) ==
  /\ Done("updateTimelinePermissions",
          updateTimelinePermissions(timelines, id, permissions))
  /\ roundTrip' = NoTrip
  /\ UNCHANGED <<tags, colors, nextId>>

UpdateTag(id, data) ==
  LET r == updateTag(tags, id, data) IN
  /\ tags' = r.tags
  /\ lastOp' = [op |-> "updateTag", ret |-> r.ret, wrote |-> r.wrote]
  /\ roundTrip' = NoTrip
  /\ UNCHANGED <<timelines, colors, nextId, viewVars, clientVars, appVars>>

DeleteTag(id) ==
  LET r == deleteTag(tags, id) IN
  /\ tags' = r.tags
  /\ lastOp' = [op |-> "deleteTag", ret |-> r.ret, wrote |-> r.wrote]
  /\ roundTrip' = NoTrip
  /\ UNCHANGED <<timelines, colors, nextId, viewVars, clientVars, appVars>>

UpdateColor(id, data) ==
  LET r == updateColor(colors, tags, timelines, id, data) IN
  /\ colors' = r.colors
  /\ tags' = r.tags
  /\ timelines' = r.data
  /\ lastOp' = [op |-> "updateColor", ret |-> r.ret, wrote |-> r.wrote]
  /\ roundTrip' = NoTrip
  /\ held' = r.data
  /\ UNCHANGED <<nextId, viewVars, shared, calls, appVars>>

DeleteColor(id) ==
  LET r == deleteColor(colors, id) IN
  /\ colors' = r.colors
  /\ lastOp' = [op |-> "deleteColor", ret |-> r.ret, wrote |-> r.wrote]
  /\ roundTrip' = NoTrip
  /\ UNCHANGED <<timelines, tags, nextId, viewVars, clientVars, appVars>>

\* Every call that takes an id, with the ids of what is stored and with an
\* id that names nothing; the calls that create an entry get only the latter.
NextStore ==
  \/ \E id \in TimelineArgs, d \in TimelinePatches : UpdateTimeline(id, d)
  \/ \E id \in TimelineArgs, m \in PermissionMaps :
       UpdateTimelinePermissions(id, m)
  \/ \E id \in TimelineArgs : DeleteTimeline(id)
  \/ \E d \in EntryDatas : AddEntry("ghost", d)
  \/ \E d \in EntryDatas : InsertEntry("ghost", "ghost", d)
  \/ \E t \in TimelineArgs : \E e \in EntryArgs(t), d \in EntryPatches :
       UpdateEntry(t, e, d)
  \/ \E t \in TimelineArgs : \E e \in EntryArgs(t) : DeleteEntry(t, e)
  \/ \E t \in TimelineArgs : \E ids \in OrderArgs(t) : UpdateEntryOrder(t, ids)
  \/ \E id \in TagArgs, d \in TagDatas : UpdateTag(id, d)
  \/ \E id \in TagArgs : DeleteTag(id)
  \/ \E id \in ColorArgs, d \in ColorDatas : UpdateColor(id, d)
  \/ \E id \in ColorArgs : DeleteColor(id)

SpecStore == InitStore /\ [][NextStore]_vars

\* ------------------------------------------------------------ the viewer
\* obj[f], or a default when the key is absent (undefined).
Field(obj, f, default) == IF f \in DOMAIN obj THEN obj[f] ELSE default

\* Mutant: the per-user override is not consulted.
Visible_globalOnly(t, userId) == t.visible

\* The filter callback of TimelineStore.getTimelines(true).
Visible(t, userId) ==
  IF /\ "userPermissions" \in DOMAIN t
     /\ userId \in DOMAIN t.userPermissions
     /\ t.userPermissions[userId] \in BOOLEAN
  THEN t.userPermissions[userId]
  ELSE t.visible

getTimelines(tls, onlyVisible, userId) ==
  IF onlyVisible THEN SelectSeq(tls, LAMBDA t : Visible(t, userId)) ELSE tls

\* [...entries].sort((a, b) => a.sort - b.sort): a stable sort.
RECURSIVE SortBySort(_)
SortBySort(entries) ==
  IF entries = <<>> THEN <<>>
  ELSE LET last   == entries[Len(entries)]
           sorted == SortBySort(SubSeq(entries, 1, Len(entries) - 1))
           n      == Cardinality({i \in 1..Len(sorted) : sorted[i].sort <= last.sort})
       IN SpliceIn(sorted, n, last)

\* Mutant: hidden entries are not taken out for players.
PermittedEntries_all(entries, isGM) == entries

\* if (!isGM) entries = entries.filter(e => !e.hidden)
PermittedEntries(entries, isGM) ==
  IF isGM THEN entries ELSE SelectSeq(entries, LAMBDA e : ~e.hidden)

\* matchesTags and matchesText of _prepareContext.
matchesTags(e, filters) ==
  \/ filters = {}
  \/ \E i \in 1..Len(Field(e, "tagIds", <<>>)) : e.tagIds[i] \in filters

matchesText(e, text) ==
  \/ text = <<>>
  \/ /\ Field(e, "period", <<>>) # <<>>
     /\ includes(toLowerCase(e.period), toLowerCase(text))

\* (e.tagIds || []).map(id => tagMap.get(id)).filter(t => t); tagMap is built
\* with new Map, so the last tag with an id is the one it holds.
RECURSIVE HydrateTags(_, _)
HydrateTags(tagIds, tgs) ==
  IF tagIds = <<>> THEN <<>>
  ELSE LET t == EntryMapGet(tgs, Head(tagIds)) IN
       (IF t = 0 THEN <<>> ELSE <<tgs[t]>>) \o HydrateTags(Tail(tagIds), tgs)

\* The fallbacks of resolveEntryDisplayProps, each one token.
TEXT_MUTED == <<"var(--tl-text-muted)">>
GLOW_DEFAULT == <<"#2ec4a0">>
GlowEffects == {"glow", "glow-strong", "glitch"}

\* m.f taken as a condition.
Flag(m, f) == f \in DOMAIN m /\ m[f] = TRUE

\* Mutant: the effect colour does not fall back on the timeline's colour.
resolveEntryDisplayProps_noTimelineColor(entry, timeline) ==
  LET color        == Field(entry, "color", <<>>)
      defaultColor == Field(timeline, "defaultColor", <<>>)
      effectColor  == Field(entry, "effectColor", <<>>)
      eff == IF Field(entry, "effect", "") # "" THEN entry.effect ELSE "default"
      displayEffect ==
        IF eff = "default"
        THEN (IF Field(timeline, "defaultEffect", "") # ""
              THEN timeline.defaultEffect ELSE "none")
        ELSE eff
  IN ObjectAssign(entry,
       [displayColor |-> IF color # <<>> THEN color
                         ELSE IF defaultColor # <<>> THEN defaultColor
                         ELSE TEXT_MUTED,
        displayEffect |-> displayEffect,
        displayEffectColor |->
          IF displayEffect \in GlowEffects
          THEN (IF effectColor # <<>> THEN effectColor ELSE GLOW_DEFAULT)
          ELSE <<>>,
        hasMystery |-> /\ "mystery" \in DOMAIN entry
                       /\ \/ Flag(entry.mystery, "img")
                          \/ Flag(entry.mystery, "text")
                          \/ Flag(entry.mystery, "timeframe")])

resolveEntryDisplayProps(entry, timeline) ==
  LET color        == Field(entry, "color", <<>>)
      defaultColor == Field(timeline, "defaultColor", <<>>)
      effectColor  == Field(entry, "effectColor", <<>>)
      eff == IF Field(entry, "effect", "") # "" THEN entry.effect ELSE "default"
      displayEffect ==
        IF eff = "default"
        THEN (IF Field(timeline, "defaultEffect", "") # ""
              THEN timeline.defaultEffect ELSE "none")
        ELSE eff
  IN ObjectAssign(entry,
       [displayColor |-> IF color # <<>> THEN color
                         ELSE IF defaultColor # <<>> THEN defaultColor
                         ELSE TEXT_MUTED,
        displayEffect |-> displayEffect,
        displayEffectColor |->
          IF displayEffect \in GlowEffects
          THEN (IF effectColor # <<>> THEN effectColor
                ELSE IF defaultColor # <<>> THEN defaultColor
                ELSE GLOW_DEFAULT)
          ELSE <<>>,
        hasMystery |-> /\ "mystery" \in DOMAIN entry
                       /\ \/ Flag(entry.mystery, "img")
                          \/ Flag(entry.mystery, "text")
                          \/ Flag(entry.mystery, "timeframe")])

\* Mutant: the timeframe flag does not clear the period.
MaskMystery_keepPeriod(e, isGM) ==
  IF ~isGM /\ "mystery" \in DOMAIN e
  THEN LET m == e.mystery
           a == ObjectAssign(e, [mysteryText |-> Flag(m, "text"),
                                 mysteryImg |-> Flag(m, "img"),
                                 mysteryTimeframe |-> Flag(m, "timeframe")])
           b == IF Flag(m, "text")
                THEN ObjectAssign(a, [name |-> "", description |-> "", tags |-> <<>>])
                ELSE a
       IN IF Flag(m, "img") THEN ObjectAssign(b, [img |-> ""]) ELSE b
  ELSE e

\* The mystery block of _prepareContext: player-side content masking.
MaskMystery(e, isGM) ==
  IF ~isGM /\ "mystery" \in DOMAIN e
  THEN LET m == e.mystery
           a == ObjectAssign(e, [mysteryText |-> Flag(m, "text"),
                                 mysteryImg |-> Flag(m, "img"),
                                 mysteryTimeframe |-> Flag(m, "timeframe")])
           b == IF Flag(m, "text")
                THEN ObjectAssign(a, [name |-> "", description |-> "", tags |-> <<>>])
                ELSE a
           c == IF Flag(m, "timeframe") THEN ObjectAssign(b, [period |-> <<>>]) ELSE b
       IN IF Flag(m, "img") THEN ObjectAssign(c, [img |-> ""]) ELSE c
  ELSE e

\* What the two entries.forEach of _prepareContext make of one entry.
ViewEntry(e, tgs, viewTimeline, isGM, filters, text) ==
  LET marked   == ObjectAssign(e, [isFilteredOut |->
                    ~matchesTags(e, filters) \/ ~matchesText(e, text)])
      hydrated == ObjectAssign(marked,
                    [tags |-> HydrateTags(Field(e, "tagIds", <<>>), tgs)])
  IN MaskMystery(resolveEntryDisplayProps(hydrated, viewTimeline), isGM)

\* The timelines a read handed out, once a render has written into the entry
\* objects of timeline id: each entry that is in the view holds what the view
\* entry holds, the others and the array itself are as they were.
WriteBack(tls, id, viewEntries) ==
  [i \in 1..Len(tls) |->
     IF tls[i].id # id THEN tls[i]
     ELSE [tls[i] EXCEPT !.entries =
             [j \in 1..Len(@) |->
                IF Exists(viewEntries, @[j].id)
                THEN viewEntries[FindIndexById(viewEntries, @[j].id)]
                ELSE @[j]]]]

\* selectedTimeline of a context in which no timeline is selected (null).
NullTimeline == [id |-> "null", entries |-> <<>>]

\* !this.#selectedTimelineId
Unselected(id) == id \in {"null", ""}

\* TimelineViewer._prepareContext: the id it leaves selected and the context
\* it returns.  allTags is kept as a set, its order by label left out.
prepareContext(u, tls, tgs, selId, filters, text) ==
  LET isGM == u.isGM
      visibleTls == getTimelines(tls, ~isGM, u.id)
      sel == IF Unselected(selId) /\ Len(visibleTls) > 0
             THEN visibleTls[1].id ELSE selId
      idx == IF Unselected(sel) THEN 0 ELSE FindIndexById(visibleTls, sel)
      permitted == IF idx = 0 THEN <<>>
                   ELSE PermittedEntries(SortBySort(visibleTls[idx].entries), isGM)
      usedTagIds == UNION {{Field(permitted[i], "tagIds", <<>>)[k] :
                              k \in 1..Len(Field(permitted[i], "tagIds", <<>>))} :
                           i \in 1..Len(permitted)}
      entries == [i \in 1..Len(permitted) |->
                    ViewEntry(permitted[i], tgs, visibleTls[idx], isGM, filters, text)]
  IN [selectedTimelineId |-> sel,
      context |->
        [rendered |-> TRUE,
         isGM |-> isGM,
         timelines |-> IF idx = 0 THEN visibleTls
                       ELSE WriteBack(visibleTls, visibleTls[idx].id, entries),
         selectedTimeline |-> IF idx = 0 THEN NullTimeline
                              ELSE ObjectAssign(visibleTls[idx], [entries |-> entries]),
         hasTimelines |-> Len(visibleTls) > 0,
         allTags |-> {ObjectAssign(tgs[i], [active |-> tgs[i].id \in filters]) :
                        i \in {k \in 1..Len(tgs) : tgs[k].id \in usedTagIds}},
         hasActiveFilters |-> filters # {},
         textFilter |-> text]]

\* The .h-entry nodes the viewer template renders, one per entry of
\* selectedTimeline: data-period, data-tag-ids and the filtered-out class.
Template(ctx) ==
  [i \in 1..Len(ctx.selectedTimeline.entries) |->
     LET e == ctx.selectedTimeline.entries[i] IN
     [id |-> e.id,
      period |-> Field(e, "period", <<>>),
      tagIds |-> Field(e, "tagIds", <<>>),
      filteredOut |-> e.isFilteredOut]]

\* TimelineViewer.#applyFilters over those nodes; tagIds stands for the
\* comma-joined attribute split again, which gives back ids without commas.
applyFilters(nodes, text, filters) ==
  [i \in 1..Len(nodes) |->
     LET period == toLowerCase(nodes[i].period)
         term   == toLowerCase(text)
         mText  == term = <<>> \/ includes(period, term)
         mTags  == \/ filters = {}
                   \/ \E k \in 1..Len(nodes[i].tagIds) : nodes[i].tagIds[k] \in filters
     IN [nodes[i] EXCEPT !.filteredOut = ~(mText /\ mTags)]]

\* ------------------------------------------------- the viewer on a client
Viewers == {GM, [id |-> "u1", isGM |-> FALSE], [id |-> "u2", isGM |-> FALSE]}

\* What #onConfigureMystery passes to updateEntry; the empty patch stands for
\* an entry whose mystery dialog was never saved.
MysteryPatches ==
  {EmptyMap}
  \cup {[mystery |-> [img |-> FALSE, text |-> FALSE, timeframe |-> FALSE]],
        [mystery |-> [img |-> TRUE, text |-> FALSE, timeframe |-> FALSE]],
        [mystery |-> [img |-> FALSE, text |-> TRUE, timeframe |-> FALSE]],
        [mystery |-> [img |-> FALSE, text |-> FALSE, timeframe |-> TRUE]],
        [mystery |-> [img |-> TRUE, text |-> TRUE, timeframe |-> TRUE]]}

\* What PermissionManager writes for a timeline: user u1 forced on, forced
\* off, or left at "default".
ViewPermissionMaps ==
  {EmptyMap, [u \in {"u1"} |-> TRUE], [u \in {"u1"} |-> FALSE]}

\* What a player may type in the search box.
Terms == {<<"a", "B">>, <<"x">>}

ViewTags ==
  createTag(WorldTags, <<"P","e","a","c","e">>, <<"#","0","0","F","F","0","0">>, "g2").tags

\* Two timelines: t1 with visibility v and permissions p, an entry e1 with
\* hidden flag h and mystery patch m whose second tag was deleted, a hidden
\* entry e2 and an entry e3 with no period; t2, visible, with one entry.
ViewWorld(v, p, h, m) ==
  LET a == createTimeline(<<>>, "History", "t1").data
      b == addEntry(a, "t1", [name |-> "Battle", period |-> <<"A","b">>,
                               description |-> "A long day", img |-> "battle.png",
                               tagIds |-> <<"g1", "gone">>], "e1").data
      c == addEntry(b, "t1", [name |-> "Plot", period |-> <<"b">>,
                               tagIds |-> <<"g2">>], "e2").data
      d == addEntry(c, "t1", [name |-> "Peace", tagIds |-> <<"g2">>], "e3").data
      e == updateEntry(d, "t1", "e1", ObjectAssign([hidden |-> h], m)).data
      f == updateEntry(e, "t1", "e2", [hidden |-> TRUE]).data
      g == updateTimelinePermissions(
             updateTimeline(f, "t1", [visible |-> v]).data, "t1", p).data
      i == createTimeline(g, "Rumours", "t2").data
      j == addEntry(i, "t2", [name |-> "Omen", period |-> <<"A","b">>], "e4").data
  IN updateTimeline(j, "t2", [visible |-> TRUE]).data

\* The worlds a viewer is opened on: every visibility and permission setting
\* of t1 with e1 shown and without mystery, and every hidden flag and mystery
\* patch of e1 with t1 visible to all.
ViewWorlds ==
  {ViewWorld(v, p, FALSE, EmptyMap) : v \in BOOLEAN, p \in ViewPermissionMaps}
  \cup {ViewWorld(TRUE, EmptyMap, h, m) : h \in BOOLEAN, m \in MysteryPatches}

InitView ==
  /\ timelines \in ViewWorlds
  /\ tags = ViewTags
  /\ colors = DEFAULT_COLORS
  /\ nextId = 1
  /\ lastOp = NoOp
  /\ roundTrip = NoTrip
  /\ user \in Viewers
  /\ ViewerClosed
  /\ held = timelines
  /\ shared \in BOOLEAN
  /\ calls = NoCalls
  /\ api = NoApi
  /\ pending = NoPending

\* this.render() over the collection a read of setting "data" hands out:
\* _prepareContext, then the template.
RenderOn(data, selId, filters, text) ==
  LET r == prepareContext(user, data, tags, selId, filters, text) IN
  /\ selectedTimelineId' = r.selectedTimelineId
  /\ context' = r.context
  /\ dom' = Template(r.context)
  /\ held' = IF shared
             THEN WriteBack(data, r.context.selectedTimeline.id,
                            r.context.selectedTimeline.entries)
             ELSE data

Render(selId, filters, text) == RenderOn(held, selId, filters, text)

\* The module state TimelineAPI.Open leaves: the first call constructs the
\* viewer, whose constructor sets the updateSetting hook; later calls reuse
\* the instance as it is.
Opened(a) ==
  [a EXCEPT !.viewerInstance = "TimelineViewer",
            !.settingHook = IF a.viewerInstance = "null" THEN TRUE ELSE @,
            !.ret = "TimelineViewer"]

\* TimelineAPI.Open(timelineId); "" stands for a call without an argument.
Open(timelineId) ==
  /\ Render(IF timelineId # "" THEN timelineId ELSE selectedTimelineId,
            activeFilters, textFilter)
  /\ api' = Opened(api)
  /\ UNCHANGED <<storeVars, user, shared, calls, pending, activeFilters, textFilter>>

\* The updateSetting hook the constructor installs.
OnUpdateSetting ==
  /\ api.settingHook
  /\ Render(selectedTimelineId, activeFilters, textFilter)
  /\ UNCHANGED <<storeVars, user, shared, calls, appVars, activeFilters, textFilter>>

\* #onSelectTimeline, from a button of the rendered timeline list.
OnSelectTimeline(timelineId) ==
  /\ context.rendered
  /\ \E i \in 1..Len(context.timelines) : context.timelines[i].id = timelineId
  /\ activeFilters' = IF selectedTimelineId # timelineId THEN {} ELSE activeFilters
  /\ Render(timelineId, activeFilters', textFilter)
  /\ UNCHANGED <<storeVars, user, shared, calls, appVars, textFilter>>

\* #onToggleTagFilter, from a chip of the rendered filter bar.
OnToggleTagFilter(tagId) ==
  /\ context.rendered
  /\ \E t \in context.allTags : t.id = tagId
  /\ activeFilters' = IF tagId \in activeFilters
                      THEN activeFilters \ {tagId}
                      ELSE activeFilters \cup {tagId}
  /\ Render(selectedTimelineId, activeFilters', textFilter)
  /\ UNCHANGED <<storeVars, user, shared, calls, appVars, textFilter>>

\* #onClearFilters
OnClearFilters ==
  /\ context.rendered
  /\ activeFilters' = {}
  /\ Render(selectedTimelineId, {}, textFilter)
  /\ UNCHANGED <<storeVars, user, shared, calls, appVars, textFilter>>

\* The input listener of the search box, set up by _onRender.
OnSearchInput(value) ==
  /\ context.rendered
  /\ textFilter' = value
  /\ dom' = applyFilters(dom, value, activeFilters)
  /\ UNCHANGED <<storeVars, user, clientVars, appVars, selectedTimelineId, activeFilters, context>>

\* The click listener of the search box's clear button.
OnSearchClear ==
  /\ context.rendered
  /\ textFilter' = <<>>
  /\ dom' = applyFilters(dom, <<>>, activeFilters)
  /\ UNCHANGED <<storeVars, user, clientVars, appVars, selectedTimelineId, activeFilters, context>>

OpenArgs == TimelineArgs \cup {""}
TagIdArgs == {tags[i].id : i \in 1..Len(tags)}

NextView ==
  \/ \E id \in OpenArgs : Open(id)
  \/ OnUpdateSetting
  \/ \E id \in TimelineArgs : OnSelectTimeline(id)
  \/ \E id \in TagIdArgs : OnToggleTagFilter(id)
  \/ OnClearFilters
  \/ \E value \in Terms : OnSearchInput(value)
  \/ OnSearchClear

SpecView == InitView /\ [][NextView]_vars

\* ------------------------------------------- the viewer and display styles
\* What the colour picker of an entry passes to updateEntry; the empty patch
\* stands for an entry whose colour was never chosen.
EntryColorPatches == {EmptyMap, [color |-> <<>>], [color |-> RED]}

\* What #onChooseEffect passes to updateEntry: the effect chosen and, for the
\* glow effects only, the colour chosen ("" is "Color from Timeline
\* Settings"); the empty patch stands for an entry whose dialog was never saved.
EffectPatches ==
  {EmptyMap}
  \cup {[effect |-> e, effectColor |-> <<>>] : e \in {"default", "none", "pulse", "glow"}}
  \cup {[effect |-> e, effectColor |-> GREEN] : e \in {"glow-strong", "glitch"}}

\* The two fields of what #onConfigureTimeline passes to updateTimeline that
\* the display of an entry reads; the empty patch stands for a timeline that
\* was never configured, "" for a colour select without options.
StylePatches ==
  {EmptyMap}
  \cup {[defaultColor |-> c, defaultEffect |-> e] :
          c \in {<<>>, RED}, e \in {"none", "glow", "pulse"}}

\* One timeline, shown to all, with one tagged entry that has colour patch c
\* and effect patch f, configured with style patch s.
StyleWorld(c, f, s) ==
  LET a == createTimeline(<<>>, "History", "t1").data
      b == addEntry(a, "t1", [name |-> "Battle", period |-> <<"A","b">>,
                               tagIds |-> <<"g1">>], "e1").data
      d == updateEntry(updateEntry(b, "t1", "e1", c).data, "t1", "e1", f).data
  IN updateTimeline(updateTimeline(d, "t1", [visible |-> TRUE]).data, "t1", s).data

InitDisplay ==
  /\ timelines \in {StyleWorld(c, f, s) :
                      c \in EntryColorPatches, f \in EffectPatches, s \in StylePatches}
  /\ tags = ViewTags
  /\ colors = DEFAULT_COLORS
  /\ nextId = 1
  /\ lastOp = NoOp
  /\ roundTrip = NoTrip
  /\ user \in {GM, [id |-> "u1", isGM |-> FALSE]}
  /\ ViewerClosed
  /\ held = timelines
  /\ shared = FALSE
  /\ calls = NoCalls
  /\ api = NoApi
  /\ pending = NoPending

SpecDisplay == InitDisplay /\ [][NextView]_vars

\* --------------------------------------------- the palette and its users
\* What ColorManager's #editColor passes to updateColor for the colour "Red":
\* the label and the value of an <input type="color">, which is lower case (a
\* save with the colour left alone, a save with another colour); and a patch
\* of the label alone, as the store's interface allows.
ColorEdits ==
  {[label |-> <<"R","e","d">>, value |-> toLowerCase(RED)],
   [label |-> <<"R","e","d">>, value |-> toLowerCase(GREEN)],
   [label |-> <<"R","u","b","y">>]}

ColorIds == {DEFAULT_COLORS[1].id, "ghost"}

\* The value a dialog's select offers for the colour "Red".
Picks == {colors[i].value : i \in {k \in 1..Len(colors) : colors[k].id = DEFAULT_COLORS[1].id}}

\* The colour fields of what #onConfigureTimeline passes to updateTimeline.
LinePatches == {[defaultColor |-> v, lineColor |-> v] : v \in Picks}

\* What the colour picker and the effect dialog pass to updateEntry.
ColorPatches ==
  {[color |-> v] : v \in Picks}
  \cup {[effect |-> "glow", effectColor |-> v] : v \in Picks}

\* What TagManager passes to updateTag for the tag "War".
TagColorDatas == {[label |-> <<"W","a","r">>, color |-> v] : v \in Picks}

\* One timeline with an entry without colour and a green entry.
ColorWorld ==
  LET a == createTimeline(<<>>, "History", "t1").data
      b == addEntry(a, "t1", [name |-> "Battle"], "e1").data
  IN addEntry(b, "t1", [name |-> "Peace", color |-> GREEN], "e2").data

InitColors ==
  /\ timelines = ColorWorld
  /\ tags = ViewTags
  /\ colors = DEFAULT_COLORS
  /\ nextId = 1
  /\ lastOp = NoOp
  /\ roundTrip = NoTrip
  /\ user = GM
  /\ ViewerClosed
  /\ held = timelines
  /\ shared = FALSE
  /\ calls = NoCalls
  /\ api = NoApi
  /\ pending = NoPending

NextColors ==
  \/ \E id \in ColorIds, d \in ColorEdits : UpdateColor(id, d)
  \/ \E d \in LinePatches : UpdateTimeline("t1", d)
  \/ \E d \in ColorPatches : UpdateEntry("t1", "e1", d)
  \/ \E d \in TagColorDatas : UpdateTag("g1", d)

SpecColors == InitColors /\ [][NextColors]_vars

\* ------------------------------------------- the manager: chronological sort
\* String.prototype.split(sep) for a one-character separator.
RECURSIVE split(_, _)
split(s, sep) ==
  IF \E i \in 1..Len(s) : s[i] = sep
  THEN LET k == CHOOSE i \in 1..Len(s) :
                  s[i] = sep /\ \A j \in 1..(i - 1) : s[j] # sep
       IN <<SubSeq(s, 1, k - 1)>> \o split(SubSeq(s, k + 1, Len(s)), sep)
  ELSE <<s>>

\* String.prototype.padStart(n, "0")
RECURSIVE padStart(_, _)
padStart(s, n) == IF Len(s) >= n THEN s ELSE padStart(<<"0">> \o s, n)

\* p.replace(/:/g, "")
RemoveColons(p) == SelectSeq(p, LAMBDA c : c # ":")

\* Mutant: the key of a date starts with the day.
getSortValue_dayFirst(period, mode) ==
  LET p == period IN
  IF p = <<>> THEN <<>>
  ELSE IF mode = "date"
  THEN LET parts == split(p, "/") IN
       IF Len(parts) # 3 THEN p
       ELSE parts[1] \o parts[2] \o padStart(parts[3], 10)
  ELSE IF mode = "date_my"
  THEN LET parts == split(p, "/") IN
       IF Len(parts) # 2 THEN p
       ELSE padStart(parts[2], 10) \o parts[1]
  ELSE IF mode = "datetime"
  THEN LET dt == split(p, " ") IN
       IF Len(dt) < 2 \/ dt[1] = <<>> \/ dt[2] = <<>> THEN p
       ELSE LET dParts == split(dt[1], "/")
                tParts == split(dt[2], ":")
            IN IF Len(dParts) # 3 \/ Len(tParts) # 2 THEN p
               ELSE padStart(dParts[3], 10) \o dParts[2] \o dParts[1]
                      \o tParts[1] \o tParts[2]
  ELSE IF mode \in {"hour", "hour2"} THEN RemoveColons(p)
  ELSE toLowerCase(p)

\* getSortValue of #performSort.
getSortValue(period, mode) ==
  LET p == period IN
  IF p = <<>> THEN <<>>
  ELSE IF mode = "date"
  THEN LET parts == split(p, "/") IN
       IF Len(parts) # 3 THEN p
       ELSE padStart(parts[3], 10) \o parts[2] \o parts[1]
  ELSE IF mode = "date_my"
  THEN LET parts == split(p, "/") IN
       IF Len(parts) # 2 THEN p
       ELSE padStart(parts[2], 10) \o parts[1]
  ELSE IF mode = "datetime"
  THEN LET dt == split(p, " ") IN
       IF Len(dt) < 2 \/ dt[1] = <<>> \/ dt[2] = <<>> THEN p
       ELSE LET dParts == split(dt[1], "/")
                tParts == split(dt[2], ":")
            IN IF Len(dParts) # 3 \/ Len(tParts) # 2 THEN p
               ELSE padStart(dParts[3], 10) \o dParts[2] \o dParts[1]
                      \o tParts[1] \o tParts[2]
  ELSE IF mode \in {"hour", "hour2"} THEN RemoveColons(p)
  ELSE toLowerCase(p)

Digits == <<"0", "1", "2", "3", "4", "5", "6", "7", "8", "9">>
IsDigit(c) == \E i \in 1..Len(Digits) : Digits[i] = c
DigitValue(c) == CHOOSE i \in 1..Len(Digits) : Digits[i] = c

\* The digits a string starts with, and those digits without leading zeros.
RECURSIVE DigitRun(_)
DigitRun(s) ==
  IF s # <<>> /\ IsDigit(Head(s)) THEN <<Head(s)>> \o DigitRun(Tail(s)) ELSE <<>>

RECURSIVE StripZeros(_)
StripZeros(s) == IF s # <<>> /\ Head(s) = "0" THEN StripZeros(Tail(s)) ELSE s

\* Two numbers without leading zeros: -1, 0 or 1.
RECURSIVE CompareDigits(_, _)
CompareDigits(a, b) ==
  IF Len(a) # Len(b) THEN (IF Len(a) < Len(b) THEN -1 ELSE 1)
  ELSE IF a = <<>> THEN 0
  ELSE IF Head(a) # Head(b)
       THEN (IF DigitValue(Head(a)) < DigitValue(Head(b)) THEN -1 ELSE 1)
       ELSE CompareDigits(Tail(a), Tail(b))

\* The place of a character in the collation order at sensitivity "base":
\* white space, punctuation, digits, letters without regard to case.
Letters == <<"a", "b", "c", "d", "e", "f", "g", "h", "i", "j", "k", "l", "m",
             "n", "o", "p", "q", "r", "s", "t", "u", "v", "w", "x", "y", "z">>
Weight(c) ==
  IF c = " " THEN 1
  ELSE IF c = ":" THEN 2
  ELSE IF c = "/" THEN 3
  ELSE IF IsDigit(c) THEN 4
  ELSE IF \E i \in 1..Len(Letters) : Letters[i] = LowerChar(c)
       THEN 4 + (CHOOSE i \in 1..Len(Letters) : Letters[i] = LowerChar(c))
       ELSE 0

\* valA.localeCompare(valB, undefined, { numeric: true, sensitivity: 'base' }):
\* runs of digits compare as numbers, everything else character by character.
RECURSIVE localeCompare(_, _)
localeCompare(a, b) ==
  IF a = <<>> /\ b = <<>> THEN 0
  ELSE IF a = <<>> THEN -1
  ELSE IF b = <<>> THEN 1
  ELSE IF IsDigit(Head(a)) /\ IsDigit(Head(b))
  THEN LET ra == DigitRun(a)
           rb == DigitRun(b)
           c  == CompareDigits(StripZeros(ra), StripZeros(rb))
       IN IF c # 0 THEN c
          ELSE localeCompare(SubSeq(a, Len(ra) + 1, Len(a)),
                             SubSeq(b, Len(rb) + 1, Len(b)))
  ELSE IF Weight(Head(a)) # Weight(Head(b))
       THEN (IF Weight(Head(a)) < Weight(Head(b)) THEN -1 ELSE 1)
       ELSE localeCompare(Tail(a), Tail(b))

\* The comparator #performSort passes to Array.prototype.sort.
ComparePeriods(a, b, mode) ==
  localeCompare(getSortValue(a.period, mode), getSortValue(b.period, mode))

\* Mutant: an entry goes before the entries that compare equal to it.
RECURSIVE SortByPeriod_unstable(_, _)
SortByPeriod_unstable(entries, mode) ==
  IF entries = <<>> THEN <<>>
  ELSE LET last   == entries[Len(entries)]
           sorted == SortByPeriod_unstable(SubSeq(entries, 1, Len(entries) - 1), mode)
           n      == Cardinality({i \in 1..Len(sorted) :
                                    ComparePeriods(sorted[i], last, mode) < 0})
       IN SpliceIn(sorted, n, last)

\* entries.sort(comparator): a stable sort.
RECURSIVE SortByPeriod(_, _)
SortByPeriod(entries, mode) ==
  IF entries = <<>> THEN <<>>
  ELSE LET last   == entries[Len(entries)]
           sorted == SortByPeriod(SubSeq(entries, 1, Len(entries) - 1), mode)
           n      == Cardinality({i \in 1..Len(sorted) :
                                    ComparePeriods(sorted[i], last, mode) <= 0})
       IN SpliceIn(sorted, n, last)

\* timeline.timeframeMode || "free"
ModeOf(timeline) ==
  IF Field(timeline, "timeframeMode", "") # "" THEN timeline.timeframeMode ELSE "free"

\* Mutant: the sort leaves the entries in the order they are stored in.
performSort_keepOrder(tls, timeline) ==
  updateEntryOrder(tls, timeline.id,
                   [i \in 1..Len(timeline.entries) |-> timeline.entries[i].id])

\* TimelineManager.#performSort(timeline), on the store tls.
performSort(tls, timeline) ==
  LET entries == SortByPeriod(timeline.entries, ModeOf(timeline))
      orderedIds == [i \in 1..Len(entries) |-> entries[i].id]
  IN updateEntryOrder(tls, timeline.id, orderedIds)

\* The modes the timeline dialog offers.
timeframeModes == {"free", "date", "date_my", "datetime", "hour", "hour2"}

\* Periods an entry may hold: typed in mode free or saved by a timeframe
\* dialog, and kept when the mode is changed afterwards.
SamplePeriods ==
  { <<>>,
    <<"0","1","/","0","1","/","0","0","9","9">>,
    <<"0","1","/","0","1","/","1","0","0","0">>,
    <<"0","1","/","0","1","/","0","1","0","0">>,
    <<"0","2","/","0","1","/","0","1","0","0">>,
    <<"0","1","/","0","2","/","0","1","0","0">>,
    <<"0","1","/","0","1","/","1","0","0","0","0","0","0","0","0","0","0">>,
    <<"0","1","/","0","1","/","1","0","0","0"," ","1","0",":","3","0">>,
    <<"0","2","/","1","0","0","0">>,
    <<"1","0",":","3","0">>,
    <<"9",":","4","5">>,
    <<"b">>,
    <<"A">> }

\* One timeline in mode m with three entries.
SortWorld(m, p1, p2, p3) ==
  LET a == createTimeline(<<>>, "History", "t1").data
      b == addEntry(a, "t1", [name |-> "One", period |-> p1], "e1").data
      c == addEntry(b, "t1", [name |-> "Two", period |-> p2], "e2").data
      d == addEntry(c, "t1", [name |-> "Three", period |-> p3], "e3").data
  IN updateTimeline(d, "t1", [timeframeMode |-> m]).data

InitSort ==
  /\ timelines \in {SortWorld(m, p1, p2, p3) :
                      m \in timeframeModes, p1 \in SamplePeriods,
                      p2 \in SamplePeriods, p3 \in SamplePeriods}
  /\ tags = <<>>
  /\ colors = DEFAULT_COLORS
  /\ nextId = 1
  /\ lastOp = NoOp
  /\ roundTrip = NoTrip
  /\ user = GM
  /\ ViewerClosed
  /\ held = timelines
  /\ shared = FALSE
  /\ calls = NoCalls
  /\ api = NoApi
  /\ pending = NoPending

\* #onSortTimeline with the confirmation given: nothing for an id that names
\* no timeline, #performSort otherwise.
OnSortTimeline(timelineId) ==
  /\ IF Exists(held, timelineId)
     THEN Done("updateEntryOrder",
               performSort(held, held[FindTimeline(held, timelineId)]))
     ELSE UNCHANGED <<timelines, lastOp, held, viewVars, shared, calls, appVars>>
  /\ roundTrip' = NoTrip
  /\ UNCHANGED <<tags, colors, nextId>>

NextSort == \E t \in TimelineArgs : OnSortTimeline(t)

SpecSort == InitSort /\ [][NextSort]_vars

\* ------------------------------------------ the manager: committing a period
\* String.prototype.trim, for the blanks a period may hold.
RECURSIVE trimStart(_)
trimStart(s) == IF s # <<>> /\ Head(s) = " " THEN trimStart(Tail(s)) ELSE s

RECURSIVE trimEnd(_)
trimEnd(s) ==
  IF s # <<>> /\ s[Len(s)] = " " THEN trimEnd(SubSeq(s, 1, Len(s) - 1)) ELSE s

trim(s) == trimEnd(trimStart(s))

\* /^\d{2}\/\d{2}\/\d{4,}$/
WellFormedDate(p) ==
  /\ Len(p) >= 10
  /\ p[3] = "/" /\ p[6] = "/"
  /\ \A i \in (1..Len(p)) \ {3, 6} : IsDigit(p[i])

\* /^\d{2}\/\d{4,}$/
WellFormedMonth(p) ==
  /\ Len(p) >= 7
  /\ p[3] = "/"
  /\ \A i \in (1..Len(p)) \ {3} : IsDigit(p[i])

\* /^\d{2}:\d{2}:\d{2}$/ and /^\d{2}:\d{2}$/
WellFormedHour(p) ==
  /\ Len(p) = 8
  /\ p[3] = ":" /\ p[6] = ":"
  /\ \A i \in (1..Len(p)) \ {3, 6} : IsDigit(p[i])

WellFormedHour2(p) ==
  /\ Len(p) = 5
  /\ p[3] = ":"
  /\ \A i \in (1..Len(p)) \ {3} : IsDigit(p[i])

\* /^\d{2}\/\d{2}\/\d{4,} \d{2}:\d{2}$/
WellFormedDateTime(p) ==
  /\ Len(p) >= 16
  /\ WellFormedDate(SubSeq(p, 1, Len(p) - 6))
  /\ p[Len(p) - 5] = " "
  /\ WellFormedHour2(SubSeq(p, Len(p) - 4, Len(p)))

\* isValid of #onEntryInputChange for a non-empty val.
isValid(mode, val) ==
  CASE mode = "date"     -> WellFormedDate(val)
    [] mode = "hour"     -> WellFormedHour(val)
    [] mode = "hour2"    -> WellFormedHour2(val)
    [] mode = "date_my"  -> WellFormedMonth(val)
    [] mode = "datetime" -> WellFormedDateTime(val)
    [] OTHER             -> TRUE

\* x || fallback on a string.
OrElse(x, fallback) == IF x # <<>> THEN x ELSE fallback

\* The callback #onEditTimeframe builds for a mode, on the dialog's fields.
DialogResult(mode, f) ==
  CASE mode = "date" ->
         IF f.day = <<>> /\ f.month = <<>> /\ f.year = <<>> THEN <<>>
         ELSE OrElse(padStart(f.day, 2), <<"0","0">>) \o <<"/">>
                \o OrElse(padStart(f.month, 2), <<"0","0">>) \o <<"/">>
                \o OrElse(f.year, <<"0","0","0","0">>)
    [] mode = "hour" ->
         IF f.hour = <<>> /\ f.min = <<>> /\ f.sec = <<>> THEN <<>>
         ELSE OrElse(padStart(f.hour, 2), <<"0","0">>) \o <<":">>
                \o OrElse(padStart(f.min, 2), <<"0","0">>) \o <<":">>
                \o OrElse(padStart(f.sec, 2), <<"0","0">>)
    [] mode = "hour2" ->
         IF f.hour = <<>> /\ f.min = <<>> THEN <<>>
         ELSE OrElse(padStart(f.hour, 2), <<"0","0">>) \o <<":">>
                \o OrElse(padStart(f.min, 2), <<"0","0">>)
    [] mode = "date_my" ->
         IF f.month = <<>> /\ f.year = <<>> THEN <<>>
         ELSE OrElse(padStart(f.month, 2), <<"0","0">>) \o <<"/">>
                \o OrElse(f.year, <<"0","0","0","0">>)
    [] mode = "datetime" ->
         OrElse(padStart(f.day, 2), <<"0","0">>) \o <<"/">>
           \o OrElse(padStart(f.month, 2), <<"0","0">>) \o <<"/">>
           \o OrElse(f.year, <<"0","0","0","0">>) \o <<" ">>
           \o OrElse(padStart(f.hour, 2), <<"0","0">>) \o <<":">>
           \o OrElse(padStart(f.min, 2), <<"0","0">>)

\* What a GM may leave in the number inputs of the timeframe dialog: nothing;
\* a full date and time; a year of two digits and an hour of three (the
\* inputs cut a value at three digits, the year at six).
DialogFields ==
  {[day |-> <<>>, month |-> <<>>, year |-> <<>>,
    hour |-> <<>>, min |-> <<>>, sec |-> <<>>],
   [day |-> <<"1">>, month |-> <<"2">>, year |-> <<"1","0","0","0">>,
    hour |-> <<"9">>, min |-> <<"5">>, sec |-> <<"7">>],
   [day |-> <<"1">>, month |-> <<"2">>, year |-> <<"9","9">>,
    hour |-> <<"1","2","3">>, min |-> <<"5">>, sec |-> <<"7">>]}

\* What a GM may type into the period input of mode free.
TypedPeriods == {<<>>, <<" ", "A">>}

\* The timeline the manager has selected, as a read of the store gives it.
ManagedId == "t1"
Managed == held[FindTimeline(held, ManagedId)]

\* timeline?.autoSort
AutoSort(timeline) == Field(timeline, "autoSort", FALSE)

\* The part two handlers share: updateEntry, then #performSort when the
\* timeline read back has autoSort.
CommitPeriod(entryId, period) ==
  LET r == updateEntry(held, ManagedId, entryId, [period |-> period])
      timeline == r.data[FindTimeline(r.data, ManagedId)]
  IN /\ IF AutoSort(timeline)
        THEN Done("updateEntryOrder", performSort(r.data, timeline))
        ELSE Done("updateEntry", r)
     /\ roundTrip' = NoTrip
     /\ UNCHANGED <<tags, colors, nextId>>

\* #onEntryInputChange for the period input; #setupInputListeners binds it in
\* mode free only.  A value the mode rejects is put back and nothing is stored.
OnEntryInputChange(entryId, value) ==
  /\ ModeOf(Managed) = "free"
  /\ LET val == trim(value) IN
     IF val # <<>> /\ ~isValid(ModeOf(Managed), val)
     THEN UNCHANGED vars
     ELSE CommitPeriod(entryId, value)

\* #onEditTimeframe with the dialog saved; #setupInputListeners binds it in
\* every mode but free.
OnEditTimeframe(entryId, fields) ==
  /\ ModeOf(Managed) # "free"
  /\ CommitPeriod(entryId, DialogResult(ModeOf(Managed), fields))

\* #onConfigureTimeline with the dialog saved: the mode and autoSort of what
\* it passes to updateTimeline.
OnConfigureTimeline(mode, autoSort) ==
  UpdateTimeline(ManagedId, [timeframeMode |-> mode, autoSort |-> autoSort])

\* One timeline, as #onCreateTimeline and #onAddEntry leave it.
ManagerWorld ==
  LET a == createTimeline(<<>>, "History", "t1").data
      b == addEntry(a, "t1", [name |-> "New Entry", period |-> <<>>,
                               description |-> ""], "e1").data
  IN addEntry(b, "t1", [name |-> "New Entry", period |-> <<>>,
                         description |-> ""], "e2").data

InitManager ==
  /\ timelines = ManagerWorld
  /\ tags = <<>>
  /\ colors = DEFAULT_COLORS
  /\ nextId = 1
  /\ lastOp = NoOp
  /\ roundTrip = NoTrip
  /\ user = GM
  /\ ViewerClosed
  /\ held = timelines
  /\ shared = FALSE
  /\ calls = NoCalls
  /\ api = NoApi
  /\ pending = NoPending

NextManager ==
  \/ \E m \in timeframeModes, a \in BOOLEAN : OnConfigureTimeline(m, a)
  \/ \E e \in EntryArgs(ManagedId), v \in TypedPeriods : OnEntryInputChange(e, v)
  \/ \E e \in EntryArgs(ManagedId), f \in DialogFields : OnEditTimeframe(e, f)
  \/ OnSortTimeline(ManagedId)

SpecManager == InitManager /\ [][NextManager]_vars

\* -------------------------------------------- store calls that overlap
\* How many writes of setting "data" may be under way at once, and how many
\* store calls a run makes.
MaxInFlight == 2
MaxCalls == 3

\* A store call up to its `await game.settings.set(...)`: it reads the value
\* the client holds, changes its copy (the held value itself when reads hand
\* that out) and sends the whole collection; change is what the call is to
\* leave in the collection.
Issue(op, r, change) ==
  /\ Len(calls.inflight) < MaxInFlight
  /\ calls.count < MaxCalls
  /\ calls' = [calls EXCEPT
                 !.count = @ + 1,
                 !.inflight = Append(@, [op |-> op, data |-> r.data, ret |-> r.ret,
                                         wrote |-> r.wrote, change |-> change]),
                 !.overlapped = @ \/ calls.inflight # <<>>]
  /\ held' = IF shared THEN r.data ELSE held
  /\ UNCHANGED <<timelines, tags, colors, lastOp, roundTrip, viewVars, shared, appVars>>

\* updateEntry(timelineId, entryId, { hidden: true }), not awaited by its caller.
IssueUpdateEntry(timelineId, entryId, data) ==
  /\ Exists(held, timelineId)
  /\ Exists(held[FindTimeline(held, timelineId)].entries, entryId)
  /\ Issue("updateEntry", updateEntry(held, timelineId, entryId, data),
           [kind |-> "hidden", id |-> entryId])
  /\ UNCHANGED nextId

\* addEntry(timelineId, entryData), not awaited by its caller.
IssueAddEntry(timelineId, entryData) ==
  /\ Exists(held, timelineId)
  /\ nextId <= MaxIds
  /\ Issue("addEntry", addEntry(held, timelineId, entryData, randomID(nextId)),
           [kind |-> "entry", id |-> randomID(nextId)])
  /\ nextId' = nextId + 1

\* The oldest write settles: the setting takes the collection that was sent,
\* on the server and on this client, and the call returns to its caller.
Settle ==
  /\ calls.inflight # <<>>
  /\ LET c == Head(calls.inflight) IN
     /\ timelines' = c.data
     /\ held' = c.data
     /\ lastOp' = [op |-> c.op, ret |-> c.ret, wrote |-> c.wrote]
     /\ calls' = [calls EXCEPT !.inflight = Tail(@),
                               !.completed = @ \cup {c.change}]
  /\ roundTrip' = NoTrip
  /\ UNCHANGED <<tags, colors, nextId, viewVars, shared, appVars>>

InitCalls ==
  /\ timelines = ManagerWorld
  /\ tags = <<>>
  /\ colors = DEFAULT_COLORS
  /\ nextId = 1
  /\ lastOp = NoOp
  /\ roundTrip = NoTrip
  /\ user = GM
  /\ ViewerClosed
  /\ held = timelines
  /\ shared \in BOOLEAN
  /\ calls = NoCalls
  /\ api = NoApi
  /\ pending = NoPending

NextCalls ==
  \/ \E e \in EntryArgs(ManagedId), d \in EntryPatches :
       IssueUpdateEntry(ManagedId, e, d)
  \/ \E d \in EntryDatas : IssueAddEntry(ManagedId, d)
  \/ Settle

SpecCalls == InitCalls /\ [][NextCalls]_vars

\* ------------------------------------------- the entry point on a client
\* Mutant: Manage without its check of game.user.isGM.
Manage_noCheck(a, isGM) ==
  [a EXCEPT !.managerInstance = "TimelineManager",
            !.managerRendered = TRUE,
            !.ret = "TimelineManager"]

\* TimelineAPI.Manage(): the module state it leaves, its return value in ret.
Manage(a, isGM) ==
  IF ~isGM THEN [a EXCEPT !.ret = "null"]
  ELSE [a EXCEPT !.managerInstance = "TimelineManager",
                 !.managerRendered = TRUE,
                 !.ret = "TimelineManager"]

\* A call of Timeline.Manage(), from a macro or a directory button.
CallManage ==
  /\ api' = Manage(api, user.isGM)
  /\ UNCHANGED <<storeVars, viewVars, clientVars, pending>>

\* onClick of the Timeline tool of the notes controls.
OnClickTimelineTool ==
  IF user.isGM THEN CallManage ELSE Open("")

\* TimelineViewer.close(): the hook is removed and the window goes; the
\* instance stays in viewerInstance with the id it had selected.
Close ==
  /\ context.rendered
  /\ api' = [api EXCEPT !.settingHook = FALSE]
  /\ context' = NoContext
  /\ dom' = <<>>
  /\ UNCHANGED <<storeVars, user, selectedTimelineId, activeFilters, textFilter,
                 clientVars, pending>>

\* A write of a store call of the GM's manager reaches this client: the
\* setting takes the collection, and updateSetting runs the viewer's hook when
\* it is set and the key is that of setting "data".
Written(op, r) ==
  /\ timelines' = r.data
  /\ lastOp' = [op |-> op, ret |-> r.ret, wrote |-> r.wrote]
  /\ IF api.settingHook /\ "data" \in r.wrote
     THEN RenderOn(r.data, selectedTimelineId, activeFilters, textFilter)
     ELSE /\ held' = r.data
          /\ UNCHANGED <<selectedTimelineId, context, dom>>
  /\ UNCHANGED <<tags, colors, nextId, roundTrip, user, activeFilters, textFilter,
                 shared, calls>>

\* #onToggleVisibility
OnToggleVisibility(timelineId) ==
  /\ Exists(timelines, timelineId)
  /\ Written("updateTimeline",
             updateTimeline(timelines, timelineId,
               [visible |-> ~timelines[FindTimeline(timelines, timelineId)].visible]))
  /\ UNCHANGED appVars

\* #onDeleteTimeline, confirmed.
OnDeleteTimeline(timelineId) ==
  /\ Exists(timelines, timelineId)
  /\ Written("deleteTimeline", deleteTimeline(timelines, timelineId))
  /\ UNCHANGED appVars

\* PermissionManager, saved.
OnSavePermissions(timelineId, permissions) ==
  /\ Exists(timelines, timelineId)
  /\ Written("updateTimelinePermissions",
             updateTimelinePermissions(timelines, timelineId, permissions))
  /\ UNCHANGED appVars

\* #onBroadcastTimeline up to its write of the record: a timeline that is not
\* visible is made visible.
OnBroadcastTimeline(timelineId) ==
  /\ pending.broadcast = "null"
  /\ Exists(timelines, timelineId)
  /\ pending' = [pending EXCEPT !.broadcast = timelineId]
  /\ IF ~timelines[FindTimeline(timelines, timelineId)].visible
     THEN Written("updateTimeline",
                  updateTimeline(timelines, timelineId, [visible |-> TRUE]))
     ELSE UNCHANGED <<storeVars, viewVars, clientVars>>
  /\ UNCHANGED api

\* ... and its game.settings.set of the record, with the updateSetting hook of
\* the entry point on this client.  The record's timestamp, which makes every
\* record differ from the one before, is left out.
OnBroadcastWritten ==
  /\ pending.broadcast # "null"
  /\ pending' = [pending EXCEPT !.broadcast = "null"]
  /\ IF user.isGM
     THEN /\ api' = [api EXCEPT !.broadcast = pending.broadcast]
          /\ UNCHANGED <<selectedTimelineId, context, dom, held>>
     ELSE /\ api' = [Opened(api) EXCEPT !.broadcast = pending.broadcast]
          /\ Render(pending.broadcast, activeFilters, textFilter)
  /\ UNCHANGED <<storeVars, user, activeFilters, textFilter, shared, calls>>

\* Two timelines of one entry each, t1 hidden and t2 visible, with no
\* permissions saved yet.
ApiWorld ==
  LET a == createTimeline(<<>>, "History", "t1").data
      b == addEntry(a, "t1", [name |-> "Battle", period |-> <<"A","b">>], "e1").data
      c == createTimeline(b, "Rumours", "t2").data
      d == addEntry(c, "t2", [name |-> "Omen", period |-> <<"b">>], "e4").data
  IN updateTimeline(d, "t2", [visible |-> TRUE]).data

\* On the GM's client and on that of player u1; the GM works on timeline t1.
InitApi ==
  /\ timelines = ApiWorld
  /\ tags = <<>>
  /\ colors = DEFAULT_COLORS
  /\ nextId = 1
  /\ lastOp = NoOp
  /\ roundTrip = NoTrip
  /\ user \in {u \in Viewers : u.id \in {"gm", "u1"}}
  /\ ViewerClosed
  /\ held = timelines
  /\ shared = FALSE
  /\ calls = NoCalls
  /\ api = NoApi
  /\ pending = NoPending

NextApi ==
  \/ CallManage
  \/ OnClickTimelineTool
  \/ \E id \in OpenArgs : Open(id)
  \/ Close
  \/ OnToggleVisibility(ManagedId)
  \/ OnDeleteTimeline(ManagedId)
  \/ \E p \in ViewPermissionMaps : OnSavePermissions(ManagedId, p)
  \/ OnBroadcastTimeline(ManagedId)
  \/ OnBroadcastWritten

SpecApi == InitApi /\ [][NextApi]_vars

\* ------------------------------------------- reordering in the manager
MaxAdded == 2

\* [a[i], a[j]] = [a[j], a[i]]
Swap(ids, i, j) ==
  [k \in 1..Len(ids) |-> IF k = i THEN ids[j] ELSE IF k = j THEN ids[i] ELSE ids[k]]

\* timeline.entries.map(e => e.id)
IdsOf(entries) == [i \in 1..Len(entries) |-> entries[i].id]

\* The node list after the node at position from was dragged to position to.
Dragged(ids, from, to) ==
  LET rest == SelectSeq([k \in 1..Len(ids) |-> IF k = from THEN "" ELSE ids[k]],
                        LAMBDA x : x # "")
  IN SpliceIn(rest, to - 1, ids[from])

\* #onSortTimeline up to its `await DialogV2.confirm(...)`: the handler has
\* read the timeline and waits for the answer.
OnSortTimelineAsked(timelineId) ==
  /\ pending.sort.id = "null"
  /\ Exists(held, timelineId)
  /\ pending' = [pending EXCEPT !.sort = held[FindTimeline(held, timelineId)]]
  /\ UNCHANGED <<storeVars, viewVars, clientVars, api>>

\* ... and from the answer on: #performSort(timeline) on the timeline read
\* before the dialog, or nothing when the dialog was cancelled.
OnSortTimelineAnswered(confirmed) ==
  /\ pending.sort.id # "null"
  /\ pending' = [pending EXCEPT !.sort = NoPending.sort]
  /\ IF confirmed
     THEN /\ timelines' = performSort(held, pending.sort).data
          /\ held' = timelines'
          /\ lastOp' = [op |-> "updateEntryOrder",
                        ret |-> performSort(held, pending.sort).ret,
                        wrote |-> performSort(held, pending.sort).wrote]
     ELSE UNCHANGED <<timelines, held, lastOp>>
  /\ roundTrip' = NoTrip
  /\ UNCHANGED <<tags, colors, nextId, viewVars, shared, calls, api>>

\* #onAddEntry, on the timeline the manager has selected.
OnAddEntry ==
  /\ nextId <= MaxAdded
  /\ \E d \in EntryDatas : AddEntry(ManagedId, d)

\* #onMoveEntryUp
OnMoveEntryUp(entryId) ==
  LET currentIndex == FindIndexById(Managed.entries, entryId) IN
  /\ currentIndex > 1
  /\ Done("updateEntryOrder",
          updateEntryOrder(held, ManagedId,
                           Swap(IdsOf(Managed.entries), currentIndex - 1, currentIndex)))
  /\ roundTrip' = NoTrip
  /\ UNCHANGED <<tags, colors, nextId>>

\* #onMoveEntryDown
OnMoveEntryDown(entryId) ==
  LET currentIndex == FindIndexById(Managed.entries, entryId) IN
  /\ currentIndex > 0
  /\ currentIndex < Len(Managed.entries)
  /\ Done("updateEntryOrder",
          updateEntryOrder(held, ManagedId,
                           Swap(IdsOf(Managed.entries), currentIndex, currentIndex + 1)))
  /\ roundTrip' = NoTrip
  /\ UNCHANGED <<tags, colors, nextId>>

\* #onDrop: the ids of the .timeline-entry nodes in the order #onDragOver
\* left them in.  The manager renders at the end of each of its handlers, so
\* the nodes are those of the stored entries.
OnDrop(from, to) ==
  /\ Done("updateEntryOrder",
          updateEntryOrder(held, ManagedId, Dragged(IdsOf(Managed.entries), from, to)))
  /\ roundTrip' = NoTrip
  /\ UNCHANGED <<tags, colors, nextId>>

InitReorder ==
  /\ timelines = ManagerWorld
  /\ tags = <<>>
  /\ colors = DEFAULT_COLORS
  /\ nextId = 1
  /\ lastOp = NoOp
  /\ roundTrip = NoTrip
  /\ user = GM
  /\ ViewerClosed
  /\ held = timelines
  /\ shared = FALSE
  /\ calls = NoCalls
  /\ api = NoApi
  /\ pending = NoPending

NextReorder ==
  \/ OnSortTimelineAsked(ManagedId)
  \/ \E confirmed \in BOOLEAN : OnSortTimelineAnswered(confirmed)
  \/ OnAddEntry
  \/ \E e \in EntryArgs(ManagedId) : OnMoveEntryUp(e)
  \/ \E e \in EntryArgs(ManagedId) : OnMoveEntryDown(e)
  \/ \E from \in 1..Len(Managed.entries), to \in 1..Len(Managed.entries) :
       OnDrop(from, to)

SpecReorder == InitReorder /\ [][NextReorder]_vars

\* ------------------------------------------- patches of single entries
\* What the manager's handlers pass to updateEntry: #onToggleEntryVisibility,
\* the inputs of an entry's card, #onConfigureMystery.
FramePatches ==
  {[hidden |-> TRUE],
   [name |-> "Renamed", period |-> <<"x">>],
   [mystery |-> [img |-> FALSE, text |-> FALSE, timeframe |-> TRUE]]}

\* Timeline t1 with entries e1 and e2, timeline t2 with entry e4.
EntryWorld ==
  LET a == createTimeline(ManagerWorld, "Rumours", "t2").data
  IN addEntry(a, "t2", [name |-> "Omen", period |-> <<"A","b">>], "e4").data

\* Every id of an entry of some timeline, and one of none.
AllEntryArgs == UNION {EntryArgs(t) : t \in TimelineArgs}

InitEntry ==
  /\ timelines = EntryWorld
  /\ tags = ViewTags
  /\ colors = DEFAULT_COLORS
  /\ nextId = 1
  /\ lastOp = NoOp
  /\ roundTrip = NoTrip
  /\ user = GM
  /\ ViewerClosed
  /\ held = timelines
  /\ shared = FALSE
  /\ calls = NoCalls
  /\ api = NoApi
  /\ pending = NoPending

NextEntry ==
  \E t \in TimelineArgs, e \in AllEntryArgs, d \in FramePatches : UpdateEntry(t, e, d)

SpecEntry == InitEntry /\ [][NextEntry]_vars

\* ------------------------------------------- a write that is rejected
\* updateColor when game.settings.set rejects its write of the setting
\* failing: the awaits are in the order colors, tags, data, nothing is caught,
\* so the writes before the rejected one are persisted and those after it are
\* never made.
updateColorRejected(cls, tgs, tls, id, data, failing) ==
  LET r == updateColor(cls, tgs, tls, id, data) IN
  [colors |-> IF failing = "colors" THEN cls ELSE r.colors,
   tags   |-> IF failing \in {"colors", "tags"} THEN tgs ELSE r.tags,
   data   |-> tls,
   ret    |-> "rejected",
   wrote  |-> CASE failing = "colors" -> {}
                [] failing = "tags"   -> {"colors"}
                [] OTHER              -> r.wrote \ {"data"}]

\* A call of updateColor one of whose writes is rejected.
UpdateColorRejected(id, data, failing) ==
  LET r == updateColorRejected(colors, tags, timelines, id, data, failing) IN
  /\ failing \in updateColor(colors, tags, timelines, id, data).wrote
  /\ colors' = r.colors
  /\ tags' = r.tags
  /\ timelines' = r.data
  /\ lastOp' = [op |-> "updateColor", ret |-> r.ret, wrote |-> r.wrote]
  /\ roundTrip' = NoTrip
  /\ held' = r.data
  /\ UNCHANGED <<nextId, viewVars, shared, calls, appVars>>

\* The settings updateColor writes.
ColorSettings == {"colors", "tags", "data"}

NextPersist ==
  \/ \E id \in ColorIds, d \in ColorEdits : UpdateColor(id, d)
  \/ \E d \in ColorPatches : UpdateEntry("t1", "e1", d)
  \/ \E id \in ColorIds, d \in ColorEdits, failing \in ColorSettings :
       UpdateColorRejected(id, d, failing)

SpecPersist == InitColors /\ [][NextPersist]_vars

\* ------------------------------------------- the tag and colour managers
MaxCreated == 2

\* Mutant: the labels are compared as they are written.
duplicate_caseSensitive(items, id, label) ==
  \E i \in 1..Len(items) : items[i].id # id /\ items[i].label = label

\* The duplicate check of the four handlers: an item other than the edited
\* one (id is "" for an add, which excludes none) has the label, up to case.
duplicate(items, id, label) ==
  \E i \in 1..Len(items) :
    items[i].id # id /\ toLowerCase(items[i].label) = toLowerCase(label)

\* ui.notifications.warn(...) and return: no store call is made.
Warned ==
  /\ lastOp' = [op |-> "warn", ret |-> "undefined", wrote |-> {}]
  /\ UNCHANGED <<timelines, tags, colors, nextId, roundTrip, viewVars, clientVars,
                 appVars>>

\* addTagBtn.onclick
OnAddTag(value, color) ==
  LET label == trim(value) IN
  IF label = <<>> THEN UNCHANGED vars
  ELSE IF duplicate(tags, "", label) THEN Warned
  ELSE /\ nextId <= MaxCreated
       /\ tags' = createTag(tags, label, color, randomID(nextId)).tags
       /\ nextId' = nextId + 1
       /\ lastOp' = [op |-> "createTag", ret |-> "object", wrote |-> {"tags"}]
       /\ UNCHANGED <<timelines, colors, roundTrip, viewVars, clientVars, appVars>>

\* #editTag with the dialog saved, for the tag of a chip of the list.
OnEditTag(tagId, value, color) ==
  LET label == trim(value) IN
  /\ Exists(tags, tagId)
  /\ IF label = <<>> THEN UNCHANGED vars
     ELSE IF duplicate(tags, tagId, label) THEN Warned
     ELSE /\ UpdateTag(tagId, [label |-> label, color |-> color])

\* addColorBtn.onclick
OnAddColor(value, hex) ==
  LET label == trim(value) IN
  IF label = <<>> THEN UNCHANGED vars
  ELSE IF duplicate(colors, "", label) THEN Warned
  ELSE /\ nextId <= MaxCreated
       /\ colors' = createColor(colors, label, hex, randomID(nextId)).colors
       /\ nextId' = nextId + 1
       /\ lastOp' = [op |-> "createColor", ret |-> "object", wrote |-> {"colors"}]
       /\ UNCHANGED <<timelines, tags, roundTrip, viewVars, clientVars, appVars>>

\* #editColor with the dialog saved, for the colour of a chip of the list.
OnEditColor(colorId, value, hex) ==
  LET label == trim(value) IN
  /\ Exists(colors, colorId)
  /\ IF label = <<>> THEN UNCHANGED vars
     ELSE IF duplicate(colors, colorId, label) THEN Warned
     ELSE UpdateColor(colorId, [label |-> label, value |-> hex])

\* What is typed into the label inputs.
TypedLabels ==
  {<<" ">>, <<"w","a","r"," ">>, <<" ","r","e","d">>, <<"R","u","b","y">>}

\* The colours of the chips of the list.
EditedColorIds == {colors[i].id : i \in 1..Len(colors)}

\* The palette after the GM has deleted every default colour but the first.
RegistryColors == deleteColor(SubSeq(DEFAULT_COLORS, 1, 2), DEFAULT_COLORS[2].id).colors

InitRegistry ==
  /\ timelines = ColorWorld
  /\ tags = WorldTags
  /\ colors = RegistryColors
  /\ nextId = 1
  /\ lastOp = NoOp
  /\ roundTrip = NoTrip
  /\ user = GM
  /\ ViewerClosed
  /\ held = timelines
  /\ shared = FALSE
  /\ calls = NoCalls
  /\ api = NoApi
  /\ pending = NoPending

NextRegistry ==
  \/ \E v \in TypedLabels : OnAddTag(v, RED)
  \/ \E id \in TagIdArgs, v \in TypedLabels : OnEditTag(id, v, RED)
  \/ \E v \in TypedLabels : OnAddColor(v, toLowerCase(RED))
  \/ \E id \in EditedColorIds, v \in TypedLabels : OnEditColor(id, v, toLowerCase(RED))

SpecRegistry == InitRegistry /\ [][NextRegistry]_vars

\* ------------------------------------------------------------ properties
EntriesOf(tls, t) == tls[FindTimeline(tls, t)].entries

Ids(entries) == [i \in 1..Len(entries) |-> entries[i].id]

\* Two entries that agree on every field but sort.
SameButSort(a, b) == [a EXCEPT !.sort = 0] = [b EXCEPT !.sort = 0]

\* The ids of a list that name an entry, in the list's order.
RECURSIVE Naming(_, _)
Naming(ids, entries) ==
  IF ids = <<>> THEN <<>>
  ELSE IF Exists(entries, Head(ids))
       THEN <<Head(ids)>> \o Naming(Tail(ids), entries)
       ELSE Naming(Tail(ids), entries)

\* C1: after any sequence of addEntry, insertEntry, deleteEntry and
\* updateEntryOrder calls, the entry at position i of every timeline's stored
\* sequence has sort = i, so the sort values are exactly 0..N-1.
C1_SortIsIndex ==
  \A i \in 1..Len(timelines) :
    \A j \in 1..Len(timelines[i].entries) : timelines[i].entries[j].sort = j - 1

\* C2: updateEntryOrder(tid, ids) leaves the entries in exactly the order of
\* ids, each with sort equal to its index in the resulting sequence, and every
\* existing entry whose id is omitted from ids is absent afterward.
C2_OrderFollowsIds ==
  [][\A t \in TimelineArgs : \A ids \in OrderArgs(t) :
       (Exists(timelines, t) /\ UpdateEntryOrder(t, ids)) =>
         LET old == EntriesOf(timelines, t)
             new == EntriesOf(timelines', t)
         IN /\ Ids(new) = Naming(ids, old)
            /\ \A k \in 1..Len(new) : new[k].sort = k - 1
            /\ \A k \in 1..Len(old) :
                 (\A m \in 1..Len(ids) : ids[m] # old[k].id)
                   => ~Exists(new, old[k].id)]_vars

\* C3: in every reachable state no two entries of the same timeline have the
\* same id.
C3_UniqueEntryIds ==
  \A i \in 1..Len(timelines) :
    \A j, k \in 1..Len(timelines[i].entries) :
      timelines[i].entries[j].id = timelines[i].entries[k].id => j = k

\* C4: insertEntry(timelineId, afterEntryId, data) puts the new entry right
\* after the entry whose id is afterEntryId, or at the end when no entry has
\* that id; the entries that were there keep their relative order and every
\* entry's sort is its index.
C4_InsertAfterTarget ==
  [][\A t \in TimelineArgs : \A e \in EntryArgs(t), d \in EntryDatas :
       (Exists(timelines, t) /\ InsertEntry(t, e, d)) =>
         LET old == EntriesOf(timelines, t)
             new == EntriesOf(timelines', t)
             at  == IF Exists(old, e)
                    THEN 1 + CHOOSE k \in 1..Len(old) :
                               /\ old[k].id = e
                               /\ \A m \in 1..(k - 1) : old[m].id # e
                    ELSE Len(old) + 1
         IN /\ Len(new) = Len(old) + 1
            /\ new[at].id = randomID(nextId)
            /\ ~Exists(old, randomID(nextId))
            /\ \A k \in 1..Len(old) :
                 SameButSort(old[k], new[IF k < at THEN k ELSE k + 1])
            /\ \A k \in 1..Len(new) : new[k].sort = k - 1]_vars

\* An insertEntry has just put its entry between two older ones.
C4_Witness ==
  /\ lastOp.op = "insertEntry"
  /\ lastOp.ret = "object"
  /\ \E i \in 1..Len(timelines) :
       \E k \in 2..(Len(timelines[i].entries) - 1) :
         timelines[i].entries[k].id = randomID(nextId - 1)

\* C5: deleteEntry(timelineId, entryId) removes exactly the entries with that
\* id, keeps the others in their relative order and renumbers their sort from
\* 0; and createTimeline, addEntry(A), insertEntry(after A)(B), deleteEntry(A)
\* leaves exactly one entry, B, with sort 0.
C5_DeleteEntry ==
  [][/\ \A t \in TimelineArgs : \A e \in EntryArgs(t) :
          (Exists(timelines, t) /\ Exists(EntriesOf(timelines, t), e)
             /\ DeleteEntry(t, e)) =>
            LET old  == EntriesOf(timelines, t)
                new  == EntriesOf(timelines', t)
                kept == SelectSeq(old, LAMBDA x : x.id # e)
            IN /\ Len(new) = Len(kept)
               /\ \A k \in 1..Len(kept) : SameButSort(kept[k], new[k])
               /\ \A k \in 1..Len(new) : new[k].sort = k - 1
               /\ lastOp'.ret = "true"
     /\ roundTrip'.stage = 4 =>
          LET left == EntriesOf(timelines', roundTrip'.t)
          IN /\ Len(left) = 1
             /\ left[1].id = roundTrip'.b
             /\ left[1].sort = 0]_vars

\* The round trip has just ended with its deleteEntry(A).
C5_Witness ==
  /\ roundTrip.stage = 4
  /\ lastOp.op = "deleteEntry"
  /\ lastOp.ret = "true"

\* What C6 asks of a call whose id names nothing: it returns null or false
\* and the three collections are as they were.
NotFoundOutcome ==
  /\ lastOp'.ret \in {"null", "false"}
  /\ UNCHANGED <<timelines, tags, colors>>

\* C6: every store call made with a timeline, entry, tag or colour id that
\* names nothing returns null or false and leaves the Timelines, Tags and
\* Colors collections unchanged.
C6_NotFoundIsNoOp ==
  [][/\ \A id \in TimelineArgs : ~Exists(timelines, id) =>
          /\ \A d \in TimelinePatches : UpdateTimeline(id, d) => NotFoundOutcome
          /\ \A m \in PermissionMaps :
               UpdateTimelinePermissions(id, m) => NotFoundOutcome
          /\ DeleteTimeline(id) => NotFoundOutcome
          /\ \A d \in EntryDatas : AddEntry(id, d) => NotFoundOutcome
          /\ \A d \in EntryDatas : InsertEntry(id, "ghost", d) => NotFoundOutcome
          /\ \A d \in EntryPatches : UpdateEntry(id, "ghost", d) => NotFoundOutcome
          /\ DeleteEntry(id, "ghost") => NotFoundOutcome
          /\ \A ids \in OrderArgs(id) : UpdateEntryOrder(id, ids) => NotFoundOutcome
     /\ \A t \in TimelineArgs : Exists(timelines, t) =>
          /\ \A e \in EntryArgs(t) : ~Exists(EntriesOf(timelines, t), e) =>
               /\ \A d \in EntryPatches : UpdateEntry(t, e, d) => NotFoundOutcome
               /\ DeleteEntry(t, e) => NotFoundOutcome
          /\ \A ids \in OrderArgs(t) :
               (\E k \in 1..Len(ids) : ~Exists(EntriesOf(timelines, t), ids[k]))
                 => (UpdateEntryOrder(t, ids) => NotFoundOutcome)
     /\ \A id \in TagArgs : ~Exists(tags, id) =>
          /\ \A d \in TagDatas : UpdateTag(id, d) => NotFoundOutcome
          /\ DeleteTag(id) => NotFoundOutcome
     /\ \A id \in ColorArgs : ~Exists(colors, id) =>
          /\ \A d \in ColorDatas : UpdateColor(id, d) => NotFoundOutcome
          /\ DeleteColor(id) => NotFoundOutcome]_vars

\* The viewer has rendered a timeline.
Showing == context.rendered /\ context.selectedTimeline.id # "null"

\* The stored entries of the timeline the viewer shows, and its view of them.
StoredEntries == EntriesOf(timelines, context.selectedTimeline.id)
ViewEntries == context.selectedTimeline.entries

InView(id) == \E k \in 1..Len(ViewEntries) : ViewEntries[k].id = id
InDom(id) == \E k \in 1..Len(dom) : dom[k].id = id

\* C7: the timelines a rendered viewer lists are, for a player, exactly those
\* whose userPermissions entry for the player is true or, when there is no
\* such entry, whose visible flag is true; for the GM, all of them.
C7_TimelineVisibility ==
  context.rendered =>
    \A i \in 1..Len(timelines) :
      LET t == timelines[i]
          listed == \E k \in 1..Len(context.timelines) :
                      context.timelines[k].id = t.id
      IN listed <=>
           \/ user.isGM
           \/ user.id \in DOMAIN t.userPermissions /\ t.userPermissions[user.id]
           \/ user.id \notin DOMAIN t.userPermissions /\ t.visible

\* Player u1 is shown a timeline that is not visible but allows u1.
C7_Witness ==
  /\ context.rendered
  /\ user.id = "u1"
  /\ \E i \in 1..Len(timelines) :
       /\ ~timelines[i].visible
       /\ "u1" \in DOMAIN timelines[i].userPermissions
       /\ timelines[i].userPermissions["u1"]
       /\ \E k \in 1..Len(context.timelines) :
            context.timelines[k].id = timelines[i].id

\* C8: the view a player gets of a timeline holds no entry whose hidden flag
\* is set, whatever the tag and text filters are; the view the GM gets holds
\* every entry of the timeline.
C8_HiddenEntries ==
  Showing =>
    IF user.isGM
    THEN /\ Len(ViewEntries) = Len(StoredEntries)
         /\ Len(dom) = Len(StoredEntries)
         /\ \A i \in 1..Len(StoredEntries) :
              InView(StoredEntries[i].id) /\ InDom(StoredEntries[i].id)
    ELSE \A i \in 1..Len(StoredEntries) :
           StoredEntries[i].hidden =>
             ~InView(StoredEntries[i].id) /\ ~InDom(StoredEntries[i].id)

\* A player looks, with a tag filter and a text filter set, at a timeline
\* that has a hidden entry.
C8_Witness ==
  /\ Showing
  /\ ~user.isGM
  /\ activeFilters # {}
  /\ textFilter # <<>>
  /\ Len(ViewEntries) > 0
  /\ \E i \in 1..Len(StoredEntries) : StoredEntries[i].hidden

\* C9: an entry of the shown timeline is displayed, not filtered out, iff the
\* viewer is the GM or the entry is not hidden, and no tag filter is active or
\* one of the entry's tagIds is active, and the text filter is empty or the
\* entry's period contains it, letter case ignored.
C9_ShownIffAllMatch ==
  Showing =>
    \A i \in 1..Len(StoredEntries) :
      LET e == StoredEntries[i]
          shown == \E k \in 1..Len(dom) : dom[k].id = e.id /\ ~dom[k].filteredOut
      IN shown <=>
           /\ user.isGM \/ ~e.hidden
           /\ activeFilters = {} \/ \E k \in 1..Len(e.tagIds) : e.tagIds[k] \in activeFilters
           /\ \/ textFilter = <<>>
              \/ includes(toLowerCase(e.period), toLowerCase(textFilter))

\* C10: in a player's view an entry with mystery.text has name "", description
\* "" and no tags, one with mystery.timeframe has period "", one with
\* mystery.img has img ""; in the GM's view every entry has its stored name,
\* description, period and img and the tags its tagIds name; hasMystery is
\* set iff one of the three flags is, for every viewer.
C10_MysteryRedaction ==
  Showing =>
    \A k \in 1..Len(ViewEntries) :
      LET v == ViewEntries[k]
          e == StoredEntries[FindIndexById(StoredEntries, v.id)]
          flag(f) == "mystery" \in DOMAIN e /\ e.mystery[f]
      IN /\ v.hasMystery <=> (flag("img") \/ flag("text") \/ flag("timeframe"))
         /\ IF user.isGM
            THEN /\ v.name = e.name
                 /\ v.description = e.description
                 /\ v.period = e.period
                 /\ v.img = e.img
                 /\ [n \in 1..Len(v.tags) |-> v.tags[n].id]
                      = SelectSeq(e.tagIds, LAMBDA id : Exists(tags, id))
            ELSE /\ flag("text") =>
                      v.name = "" /\ v.description = "" /\ v.tags = <<>>
                 /\ flag("timeframe") => v.period = <<>>
                 /\ flag("img") => v.img = ""

\* A player's view holds an entry whose period was cleared by its timeframe
\* flag.
C10_Witness ==
  /\ Showing
  /\ ~user.isGM
  /\ \E k \in 1..Len(ViewEntries) :
       LET e == StoredEntries[FindIndexById(StoredEntries, ViewEntries[k].id)] IN
       /\ "mystery" \in DOMAIN e
       /\ e.mystery.timeframe
       /\ e.period # <<>>
       /\ ViewEntries[k].period = <<>>

\* C11: building a view never changes stored state: what a read of the store
\* hands out after a render has the field values that are stored, so the
\* entries it returns are unredacted.
C11_RenderKeepsStore == held = timelines

\* C12: a render that follows a render by the same viewer, with the same
\* stored timelines and tags, the same active tags and the same text filter,
\* returns the same entries with the same filtered-out flags and field values.
C12_SameInputsSameView ==
  [][(context.rendered /\ context.textFilter = textFilter /\ OnUpdateSetting)
       => context' = context]_vars

\* The timeline the viewer shows, as stored.
StoredTimeline == timelines[FindTimeline(timelines, context.selectedTimeline.id)]

\* C13: for every entry and timeline, displayColor is entry.color if that is
\* non-empty, else timeline.defaultColor, else the fixed fallback;
\* displayEffect is entry.effect unless that is missing or "default", and
\* then timeline.defaultEffect, or "none" if that is unset; displayEffectColor
\* is non-empty iff displayEffect is glow, glow-strong or glitch, and then is
\* entry.effectColor, else timeline.defaultColor, else the fixed fallback.
C13_DisplayProps ==
  Showing =>
    \A k \in 1..Len(ViewEntries) :
      LET v == ViewEntries[k]
          e == StoredEntries[FindIndexById(StoredEntries, v.id)]
          t == StoredTimeline
          glows == v.displayEffect \in {"glow", "glow-strong", "glitch"}
      IN /\ \/ e.color # <<>> /\ v.displayColor = e.color
            \/ /\ e.color = <<>>
               /\ "defaultColor" \in DOMAIN t /\ t.defaultColor # <<>>
               /\ v.displayColor = t.defaultColor
            \/ /\ e.color = <<>>
               /\ "defaultColor" \in DOMAIN t => t.defaultColor = <<>>
               /\ v.displayColor = <<"var(--tl-text-muted)">>
         /\ IF "effect" \in DOMAIN e /\ e.effect # "default"
            THEN v.displayEffect = e.effect
            ELSE IF "defaultEffect" \in DOMAIN t
                 THEN v.displayEffect = t.defaultEffect
                 ELSE v.displayEffect = "none"
         /\ v.displayEffectColor # <<>> <=> glows
         /\ glows =>
              \/ /\ "effectColor" \in DOMAIN e /\ e.effectColor # <<>>
                 /\ v.displayEffectColor = e.effectColor
              \/ /\ "effectColor" \in DOMAIN e => e.effectColor = <<>>
                 /\ "defaultColor" \in DOMAIN t /\ t.defaultColor # <<>>
                 /\ v.displayEffectColor = t.defaultColor
              \/ /\ "effectColor" \in DOMAIN e => e.effectColor = <<>>
                 /\ "defaultColor" \in DOMAIN t => t.defaultColor = <<>>
                 /\ v.displayEffectColor = <<"#2ec4a0">>

\* The view holds an entry that takes its effect from the timeline, a glow
\* effect, and glows in the timeline's colour.
C13_Witness ==
  /\ Showing
  /\ \E k \in 1..Len(ViewEntries) :
       LET v == ViewEntries[k]
           e == StoredEntries[FindIndexById(StoredEntries, v.id)]
       IN /\ "effect" \in DOMAIN e /\ e.effect = "default"
          /\ e.effectColor = <<>>
          /\ "defaultColor" \in DOMAIN StoredTimeline
          /\ StoredTimeline.defaultColor # <<>>
          /\ v.displayEffect = "glow"
          /\ v.displayEffectColor = StoredTimeline.defaultColor

\* The stored value of colour id.
ValueOf(id) == colors[FindIndexById(colors, id)].value

\* Field f of new is what the cascade from old value to v makes of it in was.
Cascaded(was, new, f, old, v) ==
  f \in DOMAIN was =>
    new[f] = IF toLowerCase(was[f]) = toLowerCase(old) THEN v ELSE was[f]

\* Some colour field of a stored tag (timeline, entry) is old up to case.
TagMatches(old) ==
  \E i \in 1..Len(tags) : toLowerCase(tags[i].color) = toLowerCase(old)

TimelineMatches(old) ==
  \E i \in 1..Len(timelines) :
    \/ \E f \in {"defaultColor", "lineColor"} \cap DOMAIN timelines[i] :
         toLowerCase(timelines[i][f]) = toLowerCase(old)
    \/ \E j \in 1..Len(timelines[i].entries) :
         \E f \in {"color", "effectColor"} \cap DOMAIN timelines[i].entries[j] :
           toLowerCase(timelines[i].entries[j][f]) = toLowerCase(old)

\* C14: after updateColor(id, {value: v}) with v other than the stored value
\* old, every tag colour, every timeline defaultColor and lineColor and every
\* entry color and effectColor that was old up to letter case is v, and every
\* such field that was not is unchanged.
C14_CascadeRewrites ==
  [][\A id \in ColorIds, d \in ColorEdits :
       (/\ Exists(colors, id)
        /\ "value" \in DOMAIN d
        /\ d.value # ValueOf(id)
        /\ UpdateColor(id, d)) =>
         LET old == ValueOf(id) IN
         /\ \A i \in 1..Len(tags) : Cascaded(tags[i], tags'[i], "color", old, d.value)
         /\ \A i \in 1..Len(timelines) :
              /\ Cascaded(timelines[i], timelines'[i], "defaultColor", old, d.value)
              /\ Cascaded(timelines[i], timelines'[i], "lineColor", old, d.value)
              /\ \A j \in 1..Len(timelines[i].entries) :
                   /\ Cascaded(timelines[i].entries[j], timelines'[i].entries[j],
                               "color", old, d.value)
                   /\ Cascaded(timelines[i].entries[j], timelines'[i].entries[j],
                               "effectColor", old, d.value)]_vars

\* C15: updateColor runs the cascade only when patch.value is present and is
\* not the stored value up to letter case: otherwise no tag, timeline or entry
\* is rewritten and neither Tags nor Timelines is written; when the cascade
\* runs, Tags is written only if a tag matched and Timelines only if a
\* timeline or an entry matched.
C15_CascadeTrigger ==
  [][\A id \in ColorIds, d \in ColorEdits :
       (Exists(colors, id) /\ UpdateColor(id, d)) =>
         IF "value" \in DOMAIN d /\ toLowerCase(d.value) # toLowerCase(ValueOf(id))
         THEN /\ "tags" \in lastOp'.wrote => TagMatches(ValueOf(id))
              /\ "data" \in lastOp'.wrote => TimelineMatches(ValueOf(id))
         ELSE /\ tags' = tags
              /\ timelines' = timelines
              /\ lastOp'.wrote \cap {"tags", "data"} = {}]_vars

\* A sort ran last: no period or mode has changed since.
JustSorted == lastOp.op = "updateEntryOrder"

\* C16: running #performSort on a timeline twice in succession, with no
\* period or mode change in between, leaves the entries after the second run
\* in the order they had after the first, for every timeframe mode and every
\* set of periods, malformed and empty ones included.
C16_SortIdempotent ==
  [][(JustSorted /\ OnSortTimeline("t1"))
       => Ids(EntriesOf(timelines', "t1")) = Ids(EntriesOf(timelines, "t1"))]_vars

\* A timeline in mode date that a sort has reordered holds a period that is
\* not a date.
C16_Witness ==
  /\ JustSorted
  /\ ModeOf(timelines[1]) = "date"
  /\ Ids(timelines[1].entries) # <<"e1", "e2", "e3">>
  /\ \E k \in 1..Len(timelines[1].entries) :
       Len(split(timelines[1].entries[k].period, "/")) = 2

\* Date p is not after date q: by year, then month, then day, as numbers.
NotAfter(p, q) ==
  LET y == CompareDigits(StripZeros(SubSeq(p, 7, Len(p))),
                         StripZeros(SubSeq(q, 7, Len(q))))
      m == CompareDigits(StripZeros(SubSeq(p, 4, 5)), StripZeros(SubSeq(q, 4, 5)))
      d == CompareDigits(StripZeros(SubSeq(p, 1, 2)), StripZeros(SubSeq(q, 1, 2)))
  IN \/ y < 0
     \/ y = 0 /\ m < 0
     \/ y = 0 /\ m = 0 /\ d <= 0

\* C17: in mode date, entries whose periods are all well-formed DD/MM/YYYY
\* dates with a year of four digits or more are, after the sort, in ascending
\* order of (year, month, day) taken as numbers, whatever the size of the year.
C17_DateOrder ==
  [][(/\ ModeOf(timelines[1]) = "date"
      /\ \A k \in 1..Len(timelines[1].entries) :
           WellFormedDate(timelines[1].entries[k].period)
      /\ OnSortTimeline("t1"))
       => \A i, j \in 1..Len(timelines'[1].entries) :
            i < j => NotAfter(timelines'[1].entries[i].period,
                              timelines'[1].entries[j].period)]_vars

\* The dates 01/01/0099, 01/01/1000 and 01/01/0100, stored in that order,
\* have been sorted into 0099, 0100, 1000.
C17_Witness ==
  /\ JustSorted
  /\ ModeOf(timelines[1]) = "date"
  /\ Ids(timelines[1].entries) = <<"e1", "e3", "e2">>
  /\ timelines[1].entries[1].period = <<"0","1","/","0","1","/","0","0","9","9">>
  /\ timelines[1].entries[2].period = <<"0","1","/","0","1","/","0","1","0","0">>
  /\ timelines[1].entries[3].period = <<"0","1","/","0","1","/","1","0","0","0">>

\* The entries of a timeline are in ascending order of their sort keys.
InKeyOrder(timeline) ==
  \A i, j \in 1..Len(timeline.entries) :
    i < j => ComparePeriods(timeline.entries[i], timeline.entries[j],
                            ModeOf(timeline)) <= 0

\* The stored period of entry id of the managed timeline.
PeriodOf(tls, id) ==
  LET es == EntriesOf(tls, ManagedId) IN es[FindIndexById(es, id)].period

\* The ids of the entries the managed timeline holds.
ManagedEntryIds == {Managed.entries[i].id : i \in 1..Len(Managed.entries)}

\* C18: with autoSort on, every commit of an entry's period, by the change
\* handler of the free-text input or by the timeframe dialog, has run the sort
\* when the handler returns: the stored entries are then in ascending order of
\* their sort keys.  (A commit ends in updateEntry or in the updateEntryOrder
\* of a sort.)
C18_AutoSortOnCommit ==
  [][(/\ AutoSort(Managed)
      /\ lastOp'.op \in {"updateEntry", "updateEntryOrder"}
      /\ \/ \E e \in ManagedEntryIds, v \in TypedPeriods :
              /\ OnEntryInputChange(e, v)
              /\ PeriodOf(timelines', e) = v
         \/ \E e \in ManagedEntryIds, f \in DialogFields :
              OnEditTimeframe(e, f))
       => InKeyOrder(timelines'[FindTimeline(timelines', ManagedId)])]_vars

\* With autoSort on, a commit has moved the entry it changed: the second
\* entry, given an earlier year, now comes first.
C18_Witness ==
  /\ AutoSort(Managed)
  /\ ModeOf(Managed) = "date"
  /\ lastOp.op = "updateEntryOrder"
  /\ Ids(Managed.entries) = <<"e2", "e1">>
  /\ Managed.entries[1].period = <<"0","1","/","0","2","/","9","9">>
  /\ Managed.entries[2].period = <<"0","1","/","0","2","/","1","0","0","0">>

\* C19: a period that does not match the pattern of the active mode is
\* rejected before anything is stored, so the stored period keeps its value;
\* hence every non-empty period committed through the manager in mode date,
\* date_my, datetime, hour or hour2 matches the pattern of that mode.
C19_PeriodsMatchMode ==
  [][\A e \in ManagedEntryIds, f \in DialogFields :
       OnEditTimeframe(e, f) =>
         LET p == DialogResult(ModeOf(Managed), f) IN
         IF p # <<>> /\ ~isValid(ModeOf(Managed), p)
         THEN timelines' = timelines
         ELSE PeriodOf(timelines', e) = p]_vars

\* The change a completed call was to leave is in the stored collection.
Present(change) ==
  LET es == EntriesOf(timelines, ManagedId) IN
  /\ Exists(es, change.id)
  /\ change.kind = "hidden" => es[FindIndexById(es, change.id)].hidden

\* A lost update: a completed mutation whose change is absent from the stored
\* collection (no call of this specification undoes a change).
LostUpdate == \E change \in calls.completed : ~Present(change)

\* C20: a lost update is reachable when two mutations of the same collection
\* are issued without awaiting the first, the later write of the whole
\* collection clobbering the earlier one; it is unreachable when every
\* mutation is awaited before the next is issued: whenever an update is lost,
\* some mutation was issued while another had not settled.
C20_LostOnlyWhenOverlapped == LostUpdate => calls.overlapped

\* Two mutations were issued without awaiting the first, both have settled,
\* and the change of one of them is lost.
C20_Witness ==
  /\ calls.overlapped
  /\ calls.inflight = <<>>
  /\ LostUpdate

\* C21: Manage() called by a non-privileged user is rejected: the call
\* returns null and neither creates nor renders a manager instance; no step
\* leaves a manager instance, created or rendered, on a client whose user is
\* not the GM.
C21_ManageRejectsPlayers ==
  [][/\ (CallManage /\ ~user.isGM)
          => /\ api'.ret = "null"
             /\ api'.managerInstance = "null"
             /\ ~api'.managerRendered
     /\ (api'.managerInstance # "null" \/ api'.managerRendered) => user.isGM]_vars

\* A player has called Manage() and got null, and has no manager.
C21_Witness ==
  /\ ~user.isGM
  /\ api.ret = "null"
  /\ api.managerInstance = "null"

\* The timelines visible to the user of this client.
VisibleHere(tls) == getTimelines(tls, ~user.isGM, user.id)

\* C22: after Open() without a timelineId, whenever at least one timeline is
\* visible to the user the viewer displays a timeline visible to them, the
\* first visible one when the id selected before names no visible timeline.
C22_OpenShowsVisible ==
  [][(/\ api'.ret = "TimelineViewer"
      /\ Open("")
      /\ Len(VisibleHere(timelines)) > 0)
       => /\ context'.rendered
          /\ Exists(VisibleHere(timelines), context'.selectedTimeline.id)
          /\ ~Exists(VisibleHere(timelines), selectedTimelineId)
               => context'.selectedTimeline.id = VisibleHere(timelines)[1].id]_vars

\* C23: when the record of a broadcast of timeline T is written and T is in
\* the store and visible, the client of a player opens its viewer with T
\* selected and T displayed, whatever that player's permission override is.
C23_BroadcastShows ==
  [][(/\ pending.broadcast # "null"
      /\ OnBroadcastWritten
      /\ ~user.isGM
      /\ Exists(timelines, pending.broadcast)
      /\ timelines[FindTimeline(timelines, pending.broadcast)].visible)
       => /\ context'.rendered
          /\ selectedTimelineId' = pending.broadcast
          /\ context'.selectedTimeline.id = pending.broadcast]_vars

\* C26: for a player, the timeline the viewer displays is in every state
\* either absent or a timeline of the store that is visible to that player
\* under the override-or-global rule.
C26_DisplayedIsVisible ==
  (/\ context.rendered
   /\ ~user.isGM
   /\ context.selectedTimeline.id # "null")
    => Exists(VisibleHere(timelines), context.selectedTimeline.id)

\* C27: whenever the viewer window is open, a write of the Timelines
\* collection re-renders the viewer, so that it shows the view of the written
\* collection, also after the viewer was closed and opened again; a write
\* while the window is closed renders nothing.
C27_WritesRefreshViewer ==
  [][timelines' # timelines
       => IF context.rendered
          THEN context' = prepareContext(user, timelines', tags, selectedTimelineId,
                                         activeFilters, textFilter).context
          ELSE context' = context]_vars

\* C24: a reorder (#performSort, move up, move down, drop) never changes the
\* set of entries of the timeline: the ids stored after it are the ids stored
\* before it, each once, also when an entry was added while the sort dialog
\* was open.
C24_ReorderIsPermutation ==
  [][lastOp'.op = "updateEntryOrder"
       => LET was == IdsOf(EntriesOf(timelines, ManagedId))
              now == IdsOf(EntriesOf(timelines', ManagedId))
          IN /\ Len(now) = Len(was)
             /\ {now[i] : i \in 1..Len(now)} = {was[i] : i \in 1..Len(was)}]_vars

\* The store with the period of every entry whose mystery.timeframe flag is
\* set replaced by q: a store that differs from tls in those periods only.
WithPeriod(tls, q) ==
  [i \in 1..Len(tls) |->
     [tls[i] EXCEPT !.entries =
        [j \in 1..Len(@) |->
           IF "mystery" \in DOMAIN @[j] /\ Flag(@[j].mystery, "timeframe")
           THEN ObjectAssign(@[j], [period |-> q]) ELSE @[j]]]]

\* What a render of the store tls displays, with the viewer as it is.
ViewOf(tls) ==
  prepareContext(user, tls, tags, selectedTimelineId, activeFilters,
                 textFilter).context.selectedTimeline

\* C25: for a player, the rendered view does not depend on the stored period
\* of an entry whose mystery.timeframe flag is set: a store that differs only
\* in that period renders to the same view, filtered-out flags included,
\* under every text filter and tag filter the viewer may hold.
C25_MaskedPeriodNotObservable ==
  (context.rendered /\ ~user.isGM)
    => \A q \in {<<>>, <<"x">>, <<"A", "b">>} :
         ViewOf(WithPeriod(timelines, q)) = ViewOf(timelines)

\* The entry after is the entry before with the fields of the patch, and with
\* no other field added, removed or changed.
Patched(was, now, patch) ==
  /\ DOMAIN now = DOMAIN was \cup DOMAIN patch
  /\ \A f \in DOMAIN patch : now[f] = patch[f]
  /\ \A f \in DOMAIN was \ DOMAIN patch : now[f] = was[f]

\* C29: updateEntry(timelineId, entryId, patch) changes only the fields named
\* in patch on the entry with that id: every other field of that entry, every
\* other entry with its position and sort, every other timeline and every
\* other field of the timeline, and the Tags and Colors collections are
\* unchanged; when no such entry exists nothing changes.
C29_UpdateEntryFrame ==
  [][\A t \in TimelineArgs, e \in AllEntryArgs, d \in FramePatches :
       UpdateEntry(t, e, d)
         => /\ tags' = tags
            /\ colors' = colors
            /\ Len(timelines') = Len(timelines)
            /\ \A i \in 1..Len(timelines) :
                 LET was == timelines[i]
                     now == timelines'[i]
                 IN IF i = FindTimeline(timelines, t)
                       /\ FindIndexById(was.entries, e) # 0
                    THEN /\ [now EXCEPT !.entries = was.entries] = was
                         /\ Len(now.entries) = Len(was.entries)
                         /\ \A j \in 1..Len(was.entries) :
                              IF j = FindIndexById(was.entries, e)
                              THEN Patched(was.entries[j], now.entries[j], d)
                              ELSE now.entries[j] = was.entries[j]
                    ELSE now = was]_vars

\* updateEntry has renamed entry e2 of t1 and given it a period: e1 before it
\* and the entry of t2 are as they were created.
C29_Witness ==
  /\ lastOp.op = "updateEntry"
  /\ lastOp.ret = "object"
  /\ EntriesOf(timelines, "t1")[2].id = "e2"
  /\ EntriesOf(timelines, "t1")[2].name = "Renamed"
  /\ EntriesOf(timelines, "t1")[2].sort = 1
  /\ EntriesOf(timelines, "t1")[1] = EntriesOf(EntryWorld, "t1")[1]
  /\ EntriesOf(timelines, "t2") = EntriesOf(EntryWorld, "t2")

\* Field f of was referred to the value old (up to case) and still holds what
\* it held.
StillOld(was, now, f, old) ==
  /\ f \in DOMAIN was
  /\ was[f] # <<>>
  /\ toLowerCase(was[f]) = toLowerCase(old)
  /\ now[f] = was[f]

\* C28: when a write of updateColor(id, {value: v}) fails, the persisted
\* state does not hold v for the palette colour while a tag colour, a
\* timeline defaultColor or an entry color or effectColor that matched the
\* old value before the call still holds the old value.
C28_CascadeAllOrNothing ==
  [][\A id \in ColorIds, d \in ColorEdits, failing \in ColorSettings :
       (/\ lastOp'.ret = "rejected"
        /\ "value" \in DOMAIN d
        /\ UpdateColorRejected(id, d, failing))
         => ~(/\ colors'[FindIndexById(colors', id)].value = d.value
              /\ d.value # ValueOf(id)
              /\ \/ \E i \in 1..Len(tags) :
                      StillOld(tags[i], tags'[i], "color", ValueOf(id))
                 \/ \E i \in 1..Len(timelines) :
                      \/ StillOld(timelines[i], timelines'[i], "defaultColor",
                                  ValueOf(id))
                      \/ \E j \in 1..Len(timelines[i].entries) :
                           \E f \in {"color", "effectColor"} :
                             StillOld(timelines[i].entries[j],
                                      timelines'[i].entries[j], f, ValueOf(id)))]_vars

\* No two items have labels that are equal case-insensitively.
UniqueLabels(items) ==
  \A i, j \in 1..Len(items) :
    toLowerCase(items[i].label) = toLowerCase(items[j].label) => i = j

\* C30: every create and edit of TagManager and ColorManager, each awaited,
\* leaves registries in which no two tags and no two colours have labels
\* that are equal case-insensitively, and a create or edit whose label
\* collides with that of another item writes nothing to the store: a step
\* in which a handler has called the store is one whose label did not
\* collide.
C30_LabelsStayUnique ==
  [][/\ tags' # tags => UniqueLabels(tags')
     /\ colors' # colors => UniqueLabels(colors')
     /\ lastOp'.op = "createTag"
          => \A v \in TypedLabels :
               OnAddTag(v, RED) => ~duplicate(tags, "", trim(v))
     /\ lastOp'.op = "updateTag"
          => \A id \in TagIdArgs, v \in TypedLabels :
               OnEditTag(id, v, RED) => ~duplicate(tags, id, trim(v))
     /\ lastOp'.op = "createColor"
          => \A v \in TypedLabels :
               OnAddColor(v, toLowerCase(RED)) => ~duplicate(colors, "", trim(v))
     /\ lastOp'.op = "updateColor"
          => \A id \in EditedColorIds, v \in TypedLabels :
               OnEditColor(id, v, toLowerCase(RED))
                 => ~duplicate(colors, id, trim(v))]_vars

\* Tags and colours have been created, and the last action was rejected for a
\* label that another item holds in another case.
C30_Witness ==
  /\ lastOp.op = "warn"
  /\ Len(tags) > Len(WorldTags)
  /\ Len(colors) > Len(RegistryColors)
  /\ \E i \in 1..Len(tags) : tags[i].label = <<"w","a","r">>
  /\ UniqueLabels(tags)
  /\ UniqueLabels(colors)

====
